---- MODULE Spec2Model ----
(***************************************************************************)
(* Chunked PDF translation pipeline of the translator repository:          *)
(*   agent.py          TranslationAgent  (single-attempt translation client) *)
(*   pdf_translator.py PDFTranslator     (retry pipeline and merger)       *)
(*   pdf_processor.py  PDFProcessor      (chunker)                         *)
(*                                                                         *)
(* Text is a sequence of one-character strings.  A non-ASCII character of  *)
(* a literal of the source is written as one ASCII symbol (its pinyin), so *)
(* Len agrees with Python's len.                                           *)
(***************************************************************************)
EXTENDS Integers, Sequences, FiniteSets, TLC

VARIABLES
    text_chunks,            \* argument of translate_pdf_chunks_with_progress
    max_retries,            \* PDFTranslator.max_retries
    delay_between_chunks,   \* PDFTranslator.delay_between_chunks
    results,                \* local list `results` of the pipeline
    i,                      \* loop variable of `for i, chunk in enumerate(.., 1)`
    attempt,                \* loop variable of `for attempt in range(max_retries)`
    result,                 \* value returned by _translate_chunk_with_retry
    pc,                     \* position of the pipeline run
    trace,                  \* observable effects: client calls, sleeps, progress
    op,                     \* pure-function runs: which function was applied
    args,                   \* pure-function runs: its arguments
    ret                     \* pure-function runs: its return value

vars == <<text_chunks, max_retries, delay_between_chunks, results, i, attempt,
          result, pc, trace, op, args, ret>>

(***************************************************************************)
(* Bounds of the model.                                                    *)
(***************************************************************************)
MaxChunks == 2

MaxRetries == 3

MaxOutcomes == 3

MaxTextLen == 5

MaxChunkSize == 4

MaxReplyLen == 3

MaxProgress == 10

MaxFileRetries == 2

MaxRawLen == 6

MaxConfigCalls == 1

MaxPages == 4

MaxAgentTexts == 3

MaxPairChunks == 2

(***************************************************************************)
(* Text helpers (Python str).                                              *)
(***************************************************************************)
IsSpace(c) == c \in {" ", "\n", "\t"}

RECURSIVE LStrip(_)
LStrip(s) ==
    IF s = <<>> THEN <<>>
    ELSE IF IsSpace(Head(s)) THEN LStrip(Tail(s)) ELSE s

RECURSIVE RStrip(_)
RStrip(s) ==
    IF s = <<>> THEN <<>>
    ELSE IF IsSpace(s[Len(s)]) THEN RStrip(SubSeq(s, 1, Len(s) - 1)) ELSE s

\* str.strip()
Strip(s) == RStrip(LStrip(s))

Digit(d) ==
    CASE d = 0 -> "0" [] d = 1 -> "1" [] d = 2 -> "2" [] d = 3 -> "3"
      [] d = 4 -> "4" [] d = 5 -> "5" [] d = 6 -> "6" [] d = 7 -> "7"
      [] d = 8 -> "8" [] d = 9 -> "9"

\* str(n) of an int, as the f-strings format it
RECURSIVE Str(_)
Str(n) ==
    IF n < 0 THEN <<"-">> \o Str(0 - n)
    ELSE IF n < 10 THEN <<Digit(n)>>
    ELSE Str(n \div 10) \o <<Digit(n % 10)>>

(***************************************************************************)
(* Translation client: TranslationAgent.translate_pdf_content.             *)
(* A reply of the completion service is a record                           *)
(*   [raised, status_code, text, message]:                                 *)
(* raised = TRUE is an exception inside the try block, with str(e) =       *)
(* message; otherwise the response object's status_code, output.text and   *)
(* message.                                                                *)
(***************************************************************************)
ApiFailedPrefix == <<"A", "P", "I", "diao", "yong", "shi", "bai", ":", " ">>

\* mutant of SuccessResult: the response text as it came, not stripped
SuccessResultUntrimmed(text, reply) ==
    [original |-> text, translation |-> reply.text, status |-> "success",
     model |-> "qwen-max", type |-> "pdf_translation"]

SuccessResult(text, reply) ==
    [original |-> text, translation |-> Strip(reply.text), status |-> "success",
     model |-> "qwen-max", type |-> "pdf_translation"]

ServiceErrorResult(text, reply) ==
    [original |-> text, translation |-> <<>>, status |-> "error",
     error |-> ApiFailedPrefix \o reply.message]

ExceptionResult(text, reply) ==
    [original |-> text, translation |-> <<>>, status |-> "error",
     error |-> reply.message]

translate_pdf_content(text, context, reply) ==
    IF reply.raised THEN ExceptionResult(text, reply)
    ELSE IF reply.status_code = 200 THEN SuccessResult(text, reply)
    ELSE ServiceErrorResult(text, reply)

(***************************************************************************)
(* TranslationAgent.get_translation_progress.  percentage is kept in       *)
(* hundredths (round(x, 2) * 100), rounded half to even as Python's round. *)
(***************************************************************************)
RoundHalfEven(num, den) ==
    LET q == num \div den
        r == num % den
    IN  IF 2 * r < den THEN q
        ELSE IF 2 * r > den THEN q + 1
        ELSE IF q % 2 = 0 THEN q ELSE q + 1

\* mutant of get_translation_progress: the last report is in_progress too
get_translation_progress_never_completed(current, total) ==
    [current |-> current,
     total |-> total,
     percentage |-> IF total > 0 THEN RoundHalfEven(current * 10000, total) ELSE 0,
     remaining |-> total - current,
     status |-> "in_progress"]

\* mutant of get_translation_progress: `<=` in the status test
get_translation_progress_le(current, total) ==
    [current |-> current,
     total |-> total,
     percentage |-> IF total > 0 THEN RoundHalfEven(current * 10000, total) ELSE 0,
     remaining |-> total - current,
     status |-> IF current <= total THEN "in_progress" ELSE "completed"]

get_translation_progress(current, total) ==
    [current |-> current,
     total |-> total,
     percentage |-> IF total > 0 THEN RoundHalfEven(current * 10000, total) ELSE 0,
     remaining |-> total - current,
     status |-> IF current < total THEN "in_progress" ELSE "completed"]

(***************************************************************************)
(* Retry loop: PDFTranslator._translate_chunk_with_retry.                  *)
(***************************************************************************)
\* mutants of InRange: range(max_retries + 1) and range(max_retries - 1)
InRangeOneMore(a, n) == a <= n

\* mutant of InRange: a negative max_retries counts as its absolute value
InRangeAbsolute(a, n) == a < (IF n < 0 THEN 0 - n ELSE n)

InRangeOneFewer(a, n) == a < n - 1

\* `for attempt in range(self.max_retries)` has a next value
InRange(a, n) == a < n

\* mutant of WithAttemptFields: the zero-based loop variable as the attempt
WithAttemptFieldsZeroBased(r, chunk_index, total_chunks, a) ==
    [k \in DOMAIN r \cup {"chunk_index", "total_chunks", "attempt"} |->
        CASE k = "chunk_index" -> chunk_index
          [] k = "total_chunks" -> total_chunks
          [] k = "attempt" -> a
          [] OTHER -> r[k]]

\* lines 170-172: the three fields attached to the client's result
WithAttemptFields(r, chunk_index, total_chunks, a) ==
    [k \in DOMAIN r \cup {"chunk_index", "total_chunks", "attempt"} |->
        CASE k = "chunk_index" -> chunk_index
          [] k = "total_chunks" -> total_chunks
          [] k = "attempt" -> a + 1
          [] OTHER -> r[k]]

\* mutant of ShouldBackoff: a wait after the last attempt too
ShouldBackoffAlways(a, n) == a < n

\* line 185: a backoff sleep follows the failed attempt
ShouldBackoff(a, n) == a < n - 1

\* mutant of Backoff: the wait starts at 4
BackoffShifted(a) == 2 ^ (a + 2)

\* line 186: time.sleep(2**attempt)
Backoff(a) == 2 ^ a

FailedPlaceholder(chunk_index) ==
    <<"[", "fan", "yi", "shi", "bai", " ", "-", " ", "kuai", " ">>
        \o Str(chunk_index) \o <<"]">>

ExhaustedMessage(n) ==
    <<"jing", "guo", " ">> \o Str(n)
        \o <<" ", "ci", "chang", "shi", "hou", "reng", "ran", "shi", "bai">>

\* mutant of ExhaustedResult: index and total swapped
ExhaustedResultSwapped(chunk, chunk_index, total_chunks, n) ==
    [original |-> chunk,
     translation |-> FailedPlaceholder(chunk_index),
     status |-> "error",
     error |-> ExhaustedMessage(n),
     chunk_index |-> total_chunks,
     total_chunks |-> chunk_index]

\* lines 189-196: the synthetic outcome after the loop
ExhaustedResult(chunk, chunk_index, total_chunks, n) ==
    [original |-> chunk,
     translation |-> FailedPlaceholder(chunk_index),
     status |-> "error",
     error |-> ExhaustedMessage(n),
     chunk_index |-> chunk_index,
     total_chunks |-> total_chunks]

(***************************************************************************)
(* Merger: PDFTranslator._merge_translation_results.                       *)
(* An outcome is a Python dict: a record whose absent keys are absent      *)
(* fields.                                                                 *)
(***************************************************************************)
ParagraphSeparator == <<"\n", "\n">>

\* mutant of SeparatorBefore: a separator before every block
SeparatorBeforeEvery(k) == ParagraphSeparator

\* lines 214-215 and 219-220: `if i > 0: merged_text += "\n\n"`, k zero-based
SeparatorBefore(k) == IF k > 0 THEN ParagraphSeparator ELSE <<>>

\* result.get('chunk_index', i + 1), k zero-based
IndexOrPosition(r, k) == IF "chunk_index" \in DOMAIN r THEN r.chunk_index ELSE k + 1

\* mutant of FailedBlock: the marker alone, the original text left out
FailedBlockMarkerOnly(r, k) ==
    <<"[", "yuan", "wen", " ", "-", " ", "kuai", " ">>
        \o Str(IndexOrPosition(r, k)) \o <<"]", ":", "\n">>

\* line 221: the block of an outcome whose status is not success
FailedBlock(r, k) ==
    <<"[", "yuan", "wen", " ", "-", " ", "kuai", " ">>
        \o Str(IndexOrPosition(r, k)) \o <<"]", ":", "\n">> \o r.original

RECURSIVE MergeLoop(_, _, _)
MergeLoop(translation_results, k, merged_text) ==
    IF k >= Len(translation_results) THEN merged_text
    ELSE LET r == translation_results[k + 1]
             block == IF r.status = "success" THEN r.translation ELSE FailedBlock(r, k)
         IN  MergeLoop(translation_results, k + 1,
                       merged_text \o SeparatorBefore(k) \o block)

\* mutant of merge_translation_results: the text starts with a separator
merge_translation_results_led(translation_results) ==
    MergeLoop(translation_results, 0, ParagraphSeparator)

merge_translation_results(translation_results) ==
    MergeLoop(translation_results, 0, <<>>)

(***************************************************************************)
(* Chunker: PDFProcessor.split_text_for_translation.                       *)
(***************************************************************************)
\* the character class [.!?。！？]; the three full-width marks by name
Terminators == {".", "!", "?", "zh_period", "zh_exclamation", "zh_question"}

\* re.split(r"[.!?。！？]\s*", text): cur is the piece being read
RECURSIVE ReSplit(_, _)
ReSplit(s, cur) ==
    IF s = <<>> THEN <<cur>>
    ELSE IF Head(s) \in Terminators THEN <<cur>> \o ReSplit(LStrip(Tail(s)), <<>>)
    ELSE ReSplit(Tail(s), Append(cur, Head(s)))

\* mutant of FitsOneChunk: a strict comparison
FitsOneChunkStrict(text, max_chunk_size) == Len(text) < max_chunk_size

\* line 127
FitsOneChunk(text, max_chunk_size) == Len(text) <= max_chunk_size

\* mutant of Overflows: the buffer is cut one character later
OverflowsOneLate(current_chunk, sentence, max_chunk_size) ==
    Len(current_chunk) + Len(sentence) > max_chunk_size + 1 /\ current_chunk # <<>>

\* line 140
Overflows(current_chunk, sentence, max_chunk_size) ==
    Len(current_chunk) + Len(sentence) > max_chunk_size /\ current_chunk # <<>>

\* lines 134-147: the loop over the sentences from position k on
RECURSIVE SplitLoop(_, _, _, _, _)
SplitLoop(sentences, k, chunks, current_chunk, max_chunk_size) ==
    IF k > Len(sentences)
    THEN [chunks |-> chunks, current_chunk |-> current_chunk]
    ELSE LET sentence == Strip(sentences[k])
         IN  IF sentence = <<>>
             THEN SplitLoop(sentences, k + 1, chunks, current_chunk, max_chunk_size)
             ELSE IF Overflows(current_chunk, sentence, max_chunk_size)
             THEN SplitLoop(sentences, k + 1, Append(chunks, Strip(current_chunk)),
                            sentence, max_chunk_size)
             ELSE IF current_chunk # <<>>
             THEN SplitLoop(sentences, k + 1, chunks,
                            current_chunk \o <<".", " ">> \o sentence, max_chunk_size)
             ELSE SplitLoop(sentences, k + 1, chunks, sentence, max_chunk_size)

\* mutant of split_text_for_translation: the last buffer is not appended
split_text_for_translation_no_last(text, max_chunk_size) ==
    IF FitsOneChunk(text, max_chunk_size) THEN <<text>>
    ELSE SplitLoop(ReSplit(text, <<>>), 1, <<>>, <<>>, max_chunk_size).chunks

\* mutant of split_text_for_translation: an empty list when nothing is left
\* over, also for a text that fits one chunk
split_text_for_translation_always_cut(text, max_chunk_size) ==
    LET end == SplitLoop(ReSplit(text, <<>>), 1, <<>>, <<>>, max_chunk_size)
    IN  IF end.current_chunk # <<>>
        THEN Append(end.chunks, Strip(end.current_chunk))
        ELSE end.chunks

split_text_for_translation(text, max_chunk_size) ==
    IF FitsOneChunk(text, max_chunk_size) THEN <<text>>
    ELSE LET end == SplitLoop(ReSplit(text, <<>>), 1, <<>>, <<>>, max_chunk_size)
         IN  IF end.current_chunk # <<>>
             THEN Append(end.chunks, Strip(end.current_chunk))
             ELSE end.chunks

(***************************************************************************)
(* PDFTranslator.get_translation_summary.  success_rate and                *)
(* average_chars_per_chunk are kept in hundredths, as percentage is.       *)
(***************************************************************************)
\* r.get(key, "")
GetOrEmpty(r, key) == IF key \in DOMAIN r THEN r[key] ELSE <<>>

\* sum(..) of a list of numbers
RECURSIVE SumSeq(_)
SumSeq(ns) == IF ns = <<>> THEN 0 ELSE Head(ns) + SumSeq(Tail(ns))

\* mutant of SuccessfulCount: an outcome counts when it has a translation
SuccessfulCountByTranslation(translation_results) ==
    Len(SelectSeq(translation_results, LAMBDA r : r.translation # <<>>))

\* lines 475-477
SuccessfulCount(translation_results) ==
    Len(SelectSeq(translation_results, LAMBDA r : r.status = "success"))

\* lines 482-484
TotalOriginalChars(translation_results) ==
    SumSeq([k \in DOMAIN translation_results |->
                Len(GetOrEmpty(translation_results[k], "original"))])

\* mutant of TotalTranslatedChars: the translation of every outcome is counted
TotalTranslatedCharsOfAll(translation_results) ==
    SumSeq([k \in DOMAIN translation_results |->
                Len(GetOrEmpty(translation_results[k], "translation"))])

\* lines 485-489
TotalTranslatedChars(translation_results) ==
    LET succeeded == SelectSeq(translation_results, LAMBDA r : r.status = "success")
    IN  SumSeq([k \in DOMAIN succeeded |-> Len(GetOrEmpty(succeeded[k], "translation"))])

get_translation_summary(translation_results) ==
    LET total_chunks == Len(translation_results)
        successful_chunks == SuccessfulCount(translation_results)
        failed_chunks == total_chunks - successful_chunks
        total_original_chars == TotalOriginalChars(translation_results)
    IN  [total_chunks |-> total_chunks,
         successful_chunks |-> successful_chunks,
         failed_chunks |-> failed_chunks,
         success_rate |-> IF total_chunks > 0
                          THEN RoundHalfEven(successful_chunks * 10000, total_chunks)
                          ELSE 0,
         total_original_chars |-> total_original_chars,
         total_translated_chars |-> TotalTranslatedChars(translation_results),
         average_chars_per_chunk |-> IF total_chunks > 0
                                     THEN RoundHalfEven(total_original_chars * 100,
                                                        total_chunks)
                                     ELSE 0]

(***************************************************************************)
(* Events of the trace.                                                    *)
(***************************************************************************)
CallEvent(chunk_index, a, chunk, outcome) ==
    [ev |-> "call", chunk_index |-> chunk_index, attempt |-> a,
     text |-> chunk, outcome |-> outcome]

SleepEvent(why, chunk_index, seconds) ==
    [ev |-> "sleep", why |-> why, chunk_index |-> chunk_index, seconds |-> seconds]

ProgressEvent(p) == [ev |-> "progress", progress |-> p]

(***************************************************************************)
(* Inputs of the pipeline run.                                             *)
(***************************************************************************)
\* chunk texts: empty, whitespace only, and with content
ChunkPool == <<<<>>, <<" ", "\n">>, <<"a", " ", "b">>>>

\* the chunk lists of up to n chunks that run through the pool from any start
ChunkLists(n) ==
    {[k \in 1 .. m |-> ChunkPool[((k + p) % Len(ChunkPool)) + 1]] :
        m \in 0 .. n, p \in 1 .. Len(ChunkPool)}

RECURSIVE SeqsUpTo(_, _)
SeqsUpTo(S, n) ==
    IF n = 0 THEN {<<>>}
    ELSE LET shorter == SeqsUpTo(S, n - 1)
         IN  shorter \cup {Append(s, x) : s \in {t \in shorter : Len(t) = n - 1}, x \in S}

\* what the translation agent does on one call of the pipeline: it returns
\* the result of translate_pdf_content for some reply, or it raises
PipelineReplies ==
    {[raised |-> FALSE, status_code |-> 200, text |-> <<" ", "T", "\n">>, message |-> <<>>],
     [raised |-> FALSE, status_code |-> 429, text |-> <<>>, message |-> <<"m">>]}

DefaultDelay == 1

DefaultMaxRetries == 3

DefaultChunkSize == 1000

\* is_scanned_pdf: pages looked at, characters a page must exceed, pages
\* with text below which the PDF counts as scanned
PagesChecked == 3

MinPageChars == 50

MinTextPages == 2

FnIdle == op = "none" /\ args = <<>> /\ ret = <<>>

\* no pipeline run: the translator as constructed
PipelineIdle ==
    /\ text_chunks = <<>>
    /\ max_retries = DefaultMaxRetries
    /\ delay_between_chunks = DefaultDelay
    /\ results = <<>>
    /\ i = 0
    /\ attempt = 0
    /\ result = <<>>
    /\ pc = "idle"
    /\ trace = <<>>

Init ==
    /\ text_chunks \in ChunkLists(MaxChunks)
    /\ max_retries \in (0 - 1) .. MaxRetries
    /\ delay_between_chunks = DefaultDelay
    /\ results = <<>>
    /\ i = 0
    /\ attempt = 0
    /\ result = <<>>
    /\ pc = "for_chunk"
    /\ trace = <<>>
    /\ FnIdle

(***************************************************************************)
(* translate_pdf_chunks_with_progress, lines 132-150.                      *)
(***************************************************************************)
\* mutant of ForNextChunk: the loop goes on with the chunk after the next
ForNextChunkSkipping ==
    /\ pc = "for_chunk"
    /\ i < Len(text_chunks)
    /\ i' = IF i + 2 <= Len(text_chunks) THEN i + 2 ELSE i + 1
    /\ attempt' = 0
    /\ pc' = "for_attempt"
    /\ UNCHANGED <<text_chunks, max_retries, delay_between_chunks, results, result,
                   trace, op, args, ret>>

\* line 135: the for loop takes the next chunk and enters the retry loop
ForNextChunk ==
    /\ pc = "for_chunk"
    /\ i < Len(text_chunks)
    /\ i' = i + 1
    /\ attempt' = 0
    /\ pc' = "for_attempt"
    /\ UNCHANGED <<text_chunks, max_retries, delay_between_chunks, results, result,
                   trace, op, args, ret>>

\* lines 168-186, the client returns a result
AttemptReturns ==
    /\ pc = "for_attempt"
    /\ InRange(attempt, max_retries)
    /\ \E reply \in PipelineReplies :
         LET r == WithAttemptFields(translate_pdf_content(text_chunks[i], <<>>, reply),
                                    i, Len(text_chunks), attempt)
             called == Append(trace, CallEvent(i, attempt + 1, text_chunks[i], r.status))
         IN  IF r.status = "success"
             THEN /\ result' = r
                  /\ trace' = called
                  /\ pc' = "append"
                  /\ UNCHANGED attempt
             ELSE /\ trace' = IF ShouldBackoff(attempt, max_retries)
                              THEN Append(called, SleepEvent("backoff", i, Backoff(attempt)))
                              ELSE called
                  /\ attempt' = attempt + 1
                  /\ UNCHANGED <<result, pc>>
    /\ UNCHANGED <<text_chunks, max_retries, delay_between_chunks, results, i,
                   op, args, ret>>

\* mutant of AttemptRaises: an exception is retried at once
AttemptRaisesNoBackoff ==
    /\ pc = "for_attempt"
    /\ InRange(attempt, max_retries)
    /\ trace' = Append(trace, CallEvent(i, attempt + 1, text_chunks[i], "raise"))
    /\ attempt' = attempt + 1
    /\ UNCHANGED <<text_chunks, max_retries, delay_between_chunks, results, i,
                   result, pc, op, args, ret>>

\* lines 168-186, the client raises: the except branch, then the backoff
AttemptRaises ==
    /\ pc = "for_attempt"
    /\ InRange(attempt, max_retries)
    /\ LET called == Append(trace, CallEvent(i, attempt + 1, text_chunks[i], "raise"))
       IN  trace' = IF ShouldBackoff(attempt, max_retries)
                    THEN Append(called, SleepEvent("backoff", i, Backoff(attempt)))
                    ELSE called
    /\ attempt' = attempt + 1
    /\ UNCHANGED <<text_chunks, max_retries, delay_between_chunks, results, i,
                   result, pc, op, args, ret>>

\* lines 188-196: the range is used up
Exhausted ==
    /\ pc = "for_attempt"
    /\ ~InRange(attempt, max_retries)
    /\ result' = ExhaustedResult(text_chunks[i], i, Len(text_chunks), max_retries)
    /\ pc' = "append"
    /\ UNCHANGED <<text_chunks, max_retries, delay_between_chunks, results, i,
                   attempt, trace, op, args, ret>>

\* mutant of ShouldDelay: no delay before the last chunk
ShouldDelayBeforeLast(k, total_chunks) == k < total_chunks - 1

\* mutant of ShouldDelay: a delay after the last chunk too
ShouldDelayAfterLast(k, total_chunks) == k <= total_chunks

\* line 147
ShouldDelay(k, total_chunks) == k < total_chunks

\* lines 140-148: append, progress, inter-chunk delay
AppendResult ==
    /\ pc = "append"
    /\ results' = Append(results, result)
    /\ LET total_chunks == Len(text_chunks)
           shown == Append(trace, ProgressEvent(get_translation_progress(i, total_chunks)))
       IN  trace' = IF ShouldDelay(i, total_chunks)
                    THEN Append(shown, SleepEvent("delay", i, delay_between_chunks))
                    ELSE shown
    /\ pc' = "for_chunk"
    /\ UNCHANGED <<text_chunks, max_retries, delay_between_chunks, i, attempt,
                   result, op, args, ret>>

\* mutant of ReturnResults: the loop also ends after a failed chunk
ReturnResultsOnFailure ==
    /\ pc = "for_chunk"
    /\ \/ ~(i < Len(text_chunks))
       \/ results # <<>> /\ results[Len(results)].status # "success"
    /\ pc' = "done"
    /\ UNCHANGED <<text_chunks, max_retries, delay_between_chunks, results, i,
                   attempt, result, trace, op, args, ret>>

\* line 150
ReturnResults ==
    /\ pc = "for_chunk"
    /\ ~(i < Len(text_chunks))
    /\ pc' = "done"
    /\ UNCHANGED <<text_chunks, max_retries, delay_between_chunks, results, i,
                   attempt, result, trace, op, args, ret>>

Next ==
    \/ ForNextChunk
    \/ AttemptReturns
    \/ AttemptRaises
    \/ Exhausted
    \/ AppendResult
    \/ ReturnResults

Spec == Init /\ [][Next]_vars

(***************************************************************************)
(* Runs of the pure functions: Init draws the arguments, the action        *)
(* applies the function.                                                   *)
(***************************************************************************)
\* outcomes as the pipeline builds them, and dicts without a chunk_index
\* or with one that is not the position
OutcomesAt(k) ==
    {[original |-> <<"a">>, translation |-> t, status |-> "success",
      chunk_index |-> k, attempt |-> 1] :
        t \in {<<"T">>, <<"U", "\n", "\n", "V">>}}
    \cup {ExhaustedResult(o, k, MaxOutcomes, DefaultMaxRetries) :
             o \in {<<"a">>, <<"b", "\n", "\n", "c">>}}
    \cup {[original |-> <<"a">>, translation |-> <<>>, status |-> "error"],
          [original |-> <<"a">>, translation |-> <<>>, status |-> "error",
           chunk_index |-> k + 4]}

RECURSIVE OutcomeLists(_)
OutcomeLists(n) ==
    IF n = 0 THEN {<<>>}
    ELSE LET shorter == OutcomeLists(n - 1)
         IN  shorter \cup {Append(l, r) : l \in {m \in shorter : Len(m) = n - 1},
                                          r \in OutcomesAt(n)}

InitMerge ==
    /\ PipelineIdle
    /\ op = "none"
    /\ args \in OutcomeLists(MaxOutcomes)
    /\ ret = <<>>

Merge ==
    /\ op = "none"
    /\ op' = "merge"
    /\ ret' = merge_translation_results(args)
    /\ UNCHANGED <<args, text_chunks, max_retries, delay_between_chunks, results,
                   i, attempt, result, pc, trace>>

SpecMerge == InitMerge /\ [][Merge]_vars

ReplyTexts == SeqsUpTo({" ", "x", "\n"}, MaxReplyLen)

Replies ==
    [raised : BOOLEAN, status_code : {200, 400, 500}, text : ReplyTexts,
     message : {<<>>, <<"m">>}]

InitClient ==
    /\ PipelineIdle
    /\ op = "none"
    /\ args \in [text : {<<>>, <<"a", " ">>}, context : {<<>>, <<"c">>}, reply : Replies]
    /\ ret = <<>>

TranslatePdfContent ==
    /\ op = "none"
    /\ op' = "translate_pdf_content"
    /\ ret' = translate_pdf_content(args.text, args.context, args.reply)
    /\ UNCHANGED <<args, text_chunks, max_retries, delay_between_chunks, results,
                   i, attempt, result, pc, trace>>

SpecClient == InitClient /\ [][TranslatePdfContent]_vars

(***************************************************************************)
(* Text normalizer: PDFProcessor._clean_text.  Each re.sub is a scan from  *)
(* the left: where the pattern matches at p the replacement is emitted     *)
(* and the scan goes on after the match, elsewhere the character at p is   *)
(* kept.  A ...MatchEnd is the position after the match that starts at p,  *)
(* or 0 when the pattern does not match there.                             *)
(***************************************************************************)
\* the class \d
DigitChars == {"0", "1", "2", "3", "4", "5", "6", "7", "8", "9"}

\* the class [a-zA-Z]
Letters ==
    {"a", "b", "c", "d", "e", "f", "g", "h", "i", "j", "k", "l", "m",
     "n", "o", "p", "q", "r", "s", "t", "u", "v", "w", "x", "y", "z",
     "A", "B", "C", "D", "E", "F", "G", "H", "I", "J", "K", "L", "M",
     "N", "O", "P", "Q", "R", "S", "T", "U", "V", "W", "X", "Y", "Z"}

\* the position after the longest run of \s that starts at p (p itself when
\* there is none)
SpaceRunEnd(t, p) ==
    CHOOSE q \in p .. (Len(t) + 1) :
        /\ \A j \in p .. (q - 1) : IsSpace(t[j])
        /\ q = Len(t) + 1 \/ ~IsSpace(t[q])

\* the same for \d
DigitRunEnd(t, p) ==
    CHOOSE q \in p .. (Len(t) + 1) :
        /\ \A j \in p .. (q - 1) : t[j] \in DigitChars
        /\ q = Len(t) + 1 \/ t[q] \notin DigitChars

\* the largest member of a set of positions, 0 for the empty set
MaxOrZero(S) == IF S = {} THEN 0 ELSE CHOOSE q \in S : \A r \in S : r <= q

\* line 101: re.sub(r"\s+", " ", text), from position p on
RECURSIVE CollapseWhitespace(_, _)
CollapseWhitespace(t, p) ==
    IF p > Len(t) THEN <<>>
    ELSE IF IsSpace(t[p])
    THEN <<" ">> \o CollapseWhitespace(t, SpaceRunEnd(t, p))
    ELSE <<t[p]>> \o CollapseWhitespace(t, p + 1)

\* ^ and $ under re.MULTILINE
AtLineStart(t, p) == p = 1 \/ t[p - 1] = "\n"

AtLineEnd(t, q) == q = Len(t) + 1 \/ t[q] = "\n"

\* r"^\s*\d+\s*$": both greedy runs are forced, the last \s* gives back
\* characters until $ holds
PageNumberMatchEnd(t, p) ==
    LET d == SpaceRunEnd(t, p)
        e == DigitRunEnd(t, d)
    IN  IF AtLineStart(t, p) /\ e > d
        THEN MaxOrZero({q \in e .. SpaceRunEnd(t, e) : AtLineEnd(t, q)})
        ELSE 0

\* line 104: re.sub(r"^\s*\d+\s*$", "", text, flags=re.MULTILINE)
RECURSIVE RemovePageNumbers(_, _)
RemovePageNumbers(t, p) ==
    IF p > Len(t) THEN <<>>
    ELSE IF PageNumberMatchEnd(t, p) # 0
    THEN RemovePageNumbers(t, PageNumberMatchEnd(t, p))
    ELSE <<t[p]>> \o RemovePageNumbers(t, p + 1)

\* r"\s+[a-zA-Z]\s+"
IsolatedMatchEnd(t, p) ==
    LET l == SpaceRunEnd(t, p)
    IN  IF /\ IsSpace(t[p])
           /\ l + 1 <= Len(t)
           /\ t[l] \in Letters
           /\ IsSpace(t[l + 1])
        THEN SpaceRunEnd(t, l + 1)
        ELSE 0

\* line 107: re.sub(r"\s+[a-zA-Z]\s+", " ", text)
RECURSIVE RemoveIsolated(_, _)
RemoveIsolated(t, p) ==
    IF p > Len(t) THEN <<>>
    ELSE IF IsolatedMatchEnd(t, p) # 0
    THEN <<" ">> \o RemoveIsolated(t, IsolatedMatchEnd(t, p))
    ELSE <<t[p]>> \o RemoveIsolated(t, p + 1)

\* r"\n\s*\n": the greedy \s* gives back characters until a newline follows
ParagraphMatchEnd(t, p) ==
    IF t[p] = "\n"
    THEN LET last == MaxOrZero({q \in (p + 1) .. (SpaceRunEnd(t, p + 1) - 1) :
                                   t[q] = "\n"})
         IN  IF last = 0 THEN 0 ELSE last + 1
    ELSE 0

\* line 110: re.sub(r"\n\s*\n", "\n\n", text)
RECURSIVE CleanParagraphs(_, _)
CleanParagraphs(t, p) ==
    IF p > Len(t) THEN <<>>
    ELSE IF ParagraphMatchEnd(t, p) # 0
    THEN <<"\n", "\n">> \o CleanParagraphs(t, ParagraphMatchEnd(t, p))
    ELSE <<t[p]>> \o CleanParagraphs(t, p + 1)

\* lines 97-112
clean_text(text) ==
    IF text = <<>> THEN <<>>
    ELSE LET collapsed == CollapseWhitespace(text, 1)
             unnumbered == RemovePageNumbers(collapsed, 1)
             unisolated == RemoveIsolated(unnumbered, 1)
             paragraphs == CleanParagraphs(unisolated, 1)
         IN  Strip(paragraphs)

(***************************************************************************)
(* PDFTranslator.translate_pdf_file.  The collaborators outside the        *)
(* pipeline answer as the run's input says:                                *)
(*   exists      os.path.exists(pdf_path)                                  *)
(*   info_ok     get_pdf_info returns no status = error                    *)
(*   scanned     is_scanned_pdf(pdf_path)                                  *)
(*   extract_ok  extract_text_from_pdf returns status = success            *)
(*   text        its total_text                                            *)
(* and the exports as the environment chosen when they run.                *)
(***************************************************************************)
FileTexts ==
    {<<>>, <<"?", "!">>, <<"A", ".", " ", "B", ".", " ", "C", ".">>}

ChunkSizes == {1, 4, DefaultChunkSize}

FileInputs ==
    [exists : BOOLEAN, info_ok : BOOLEAN, scanned : BOOLEAN, extract_ok : BOOLEAN,
     text : FileTexts, chunk_size : ChunkSizes]

ExportEnvs == [makedirs_ok : BOOLEAN, txt : BOOLEAN, docx : BOOLEAN, pdf : BOOLEAN]

\* mutant of Rejected: the scanned-PDF test left out
RejectedWithoutScanTest(input) ==
    ~input.exists \/ ~input.info_ok \/ ~input.extract_ok

\* lines 50-72: one of the four early returns is taken
Rejected(input) ==
    ~input.exists \/ ~input.info_ok \/ input.scanned \/ ~input.extract_ok

\* lines 50-72: the value of the early return
RejectResult(input) ==
    IF ~input.exists THEN [status |-> "error", error |-> "file does not exist"]
    ELSE IF ~input.info_ok
    THEN [status |-> "error", error |-> "get_pdf_info", file_path |-> "pdf_path"]
    ELSE IF input.scanned
    THEN [status |-> "warning", message |-> "scanned PDF", suggestion |-> "use OCR"]
    ELSE [status |-> "error", error |-> "extract_text_from_pdf", file_path |-> "pdf_path"]

ExportEvent(format_type, status) ==
    [ev |-> "export", format |-> format_type, status |-> status]

MakedirsEvent(ok) == [ev |-> "makedirs", ok |-> ok]

\* PDFProcessor.export_translation_result: never raises
export_translation_result(format_type, ok) ==
    IF ok THEN [status |-> "success", output_path |-> format_type, format |-> format_type]
    ELSE [status |-> "error", error |-> "export failed"]

\* mutant of export_translation_results: the formats after a failed one are
\* not exported
export_translation_results_stop(env) ==
    LET txt == export_translation_result("txt", env.txt)
        docx == export_translation_result("docx", env.docx)
        pdf == export_translation_result("pdf", env.pdf)
    IN  IF ~env.makedirs_ok
        THEN [result |-> [status |-> "error", error |-> "makedirs"],
              events |-> <<MakedirsEvent(FALSE)>>]
        ELSE IF ~env.txt
        THEN [result |-> [status |-> "success", output_directory |-> "output_dir",
                          formats |-> [txt |-> txt]],
              events |-> <<MakedirsEvent(TRUE), ExportEvent("txt", txt.status)>>]
        ELSE [result |-> [status |-> "success", output_directory |-> "output_dir",
                          formats |-> [txt |-> txt, docx |-> docx, pdf |-> pdf]],
              events |-> <<MakedirsEvent(TRUE), ExportEvent("txt", txt.status),
                           ExportEvent("docx", docx.status),
                           ExportEvent("pdf", pdf.status)>>]

\* PDFTranslator._export_translation_results: its return value and the
\* calls it makes
export_translation_results(env) ==
    LET txt == export_translation_result("txt", env.txt)
        docx == export_translation_result("docx", env.docx)
        pdf == export_translation_result("pdf", env.pdf)
    IN  IF ~env.makedirs_ok
        THEN [result |-> [status |-> "error", error |-> "makedirs"],
              events |-> <<MakedirsEvent(FALSE)>>]
        ELSE [result |-> [status |-> "success", output_directory |-> "output_dir",
                          formats |-> [txt |-> txt, docx |-> docx, pdf |-> pdf]],
              events |-> <<MakedirsEvent(TRUE), ExportEvent("txt", txt.status),
                           ExportEvent("docx", docx.status),
                           ExportEvent("pdf", pdf.status)>>]

FailedResults(translation_results) ==
    SelectSeq(translation_results, LAMBDA r : r.status # "success")

\* mutant of FileResult: a failed export makes the run an error without its
\* translation
FileResultExportStrict(input, chunks, translation_results, translated_text, export_result) ==
    IF export_result.status # "success"
    THEN [status |-> "error", error |-> export_result.error, file_path |-> "pdf_path"]
    ELSE [status |-> "success",
          pdf_info |-> [file_path |-> "pdf_path"],
          extraction_result |-> [status |-> "success", total_text |-> input.text],
          translation_results |-> translation_results,
          total_chunks |-> Len(chunks),
          successful_chunks |-> Len(translation_results)
                                    - Len(FailedResults(translation_results)),
          failed_chunks |-> Len(FailedResults(translation_results)),
          export_result |-> export_result,
          original_text |-> input.text,
          translated_text |-> translated_text]

\* mutant of FileResult: a run in which no chunk succeeded reports an error
FileResultStrict(input, chunks, translation_results, translated_text, export_result) ==
    [status |-> IF Len(FailedResults(translation_results)) = Len(translation_results)
                THEN "error" ELSE "success",
     pdf_info |-> [file_path |-> "pdf_path"],
     extraction_result |-> [status |-> "success", total_text |-> input.text],
     translation_results |-> translation_results,
     total_chunks |-> Len(chunks),
     successful_chunks |-> Len(translation_results)
                               - Len(FailedResults(translation_results)),
     failed_chunks |-> Len(FailedResults(translation_results)),
     export_result |-> export_result,
     original_text |-> input.text,
     translated_text |-> translated_text]

\* lines 103-114
FileResult(input, chunks, translation_results, translated_text, export_result) ==
    [status |-> "success",
     pdf_info |-> [file_path |-> "pdf_path"],
     extraction_result |-> [status |-> "success", total_text |-> input.text],
     translation_results |-> translation_results,
     total_chunks |-> Len(chunks),
     successful_chunks |-> Len(translation_results)
                               - Len(FailedResults(translation_results)),
     failed_chunks |-> Len(FailedResults(translation_results)),
     export_result |-> export_result,
     original_text |-> input.text,
     translated_text |-> translated_text]

InitFile ==
    /\ text_chunks = <<>>
    /\ max_retries \in 0 .. MaxFileRetries
    /\ delay_between_chunks = DefaultDelay
    /\ results = <<>>
    /\ i = 0
    /\ attempt = 0
    /\ result = <<>>
    /\ pc = "idle"
    /\ trace = <<>>
    /\ op = "none"
    /\ args \in FileInputs
    /\ ret = <<>>

\* lines 48-86: the early returns, or the chunker and the call of the pipeline
StartFile ==
    /\ op = "none"
    /\ pc = "idle"
    /\ IF Rejected(args)
       THEN /\ op' = "translate_pdf_file"
            /\ ret' = RejectResult(args)
            /\ UNCHANGED <<text_chunks, pc>>
       ELSE /\ op' = "translating"
            /\ text_chunks' = split_text_for_translation(args.text, args.chunk_size)
            /\ pc' = "for_chunk"
            /\ UNCHANGED ret
    /\ UNCHANGED <<args, max_retries, delay_between_chunks, results, i, attempt,
                   result, trace>>

\* lines 88-114: the pipeline has returned; merge, export, return
FinishFile ==
    /\ op = "translating"
    /\ pc = "done"
    /\ \E env \in ExportEnvs :
         LET export == export_translation_results(env)
         IN  /\ ret' = FileResult(args, text_chunks, results,
                                  merge_translation_results(results), export.result)
             /\ trace' = trace \o export.events
    /\ op' = "translate_pdf_file"
    /\ UNCHANGED <<args, text_chunks, max_retries, delay_between_chunks, results,
                   i, attempt, result, pc>>

NextFile ==
    \/ StartFile
    \/ ForNextChunk
    \/ AttemptReturns
    \/ AttemptRaises
    \/ Exhausted
    \/ AppendResult
    \/ ReturnResults
    \/ FinishFile

SpecFile == InitFile /\ [][NextFile]_vars

(***************************************************************************)
(* PDFTranslator.set_translation_config, followed by a run of              *)
(* translate_pdf_file.  A call is the record of the keyword arguments it   *)
(* supplies; an argument left out is None.  self.chunk_size is the         *)
(* chunk_size field of args, as in the runs of translate_pdf_file above.   *)
(***************************************************************************)
ConfigCalls ==
    {[chunk_size |-> 800, delay |-> 1, max_retries |-> 2],
     [chunk_size |-> 1, delay |-> 2, max_retries |-> 2],
     [chunk_size |-> 1, delay |-> 2],
     [chunk_size |-> 1, max_retries |-> 2],
     [delay |-> 2, max_retries |-> 0],
     [chunk_size |-> 1],
     [delay |-> 2],
     [max_retries |-> 2],
     [x \in {} |-> 0]}

\* mutant of Setting: `if value:` in place of `if value is not None:`
SettingIfTruthy(call, key, old) ==
    IF key \in DOMAIN call /\ call[key] # 0 THEN call[key] ELSE old

\* lines 519-524: `if value is not None: self.key = value`
Setting(call, key, old) ==
    IF key \in DOMAIN call THEN call[key] ELSE old

ConfigEvent(call, before) == [ev |-> "config", call |-> call, before |-> before]

\* an existing text PDF whose text has two sentences
ConfigInputs ==
    [exists : {TRUE}, info_ok : {TRUE}, scanned : {FALSE}, extract_ok : {TRUE},
     text : {<<"A", ".", " ", "B", ".">>}, chunk_size : {DefaultChunkSize}]

\* the translator as constructed, lines 30-32
InitConfig ==
    /\ PipelineIdle
    /\ op = "none"
    /\ args \in ConfigInputs
    /\ ret = <<>>

SetTranslationConfig ==
    /\ op = "none"
    /\ pc = "idle"
    /\ Len(SelectSeq(trace, LAMBDA e : e.ev = "config")) < MaxConfigCalls
    /\ \E call \in ConfigCalls :
         /\ args' = [args EXCEPT !.chunk_size = Setting(call, "chunk_size", @)]
         /\ delay_between_chunks' = Setting(call, "delay", delay_between_chunks)
         /\ max_retries' = Setting(call, "max_retries", max_retries)
         /\ trace' = Append(trace,
                            ConfigEvent(call,
                                        [chunk_size |-> args.chunk_size,
                                         delay_between_chunks |-> delay_between_chunks,
                                         max_retries |-> max_retries]))
    /\ UNCHANGED <<text_chunks, results, i, attempt, result, pc, op, ret>>

NextConfig ==
    \/ SetTranslationConfig
    \/ StartFile
    \/ ForNextChunk
    \/ AttemptReturns
    \/ AttemptRaises
    \/ Exhausted
    \/ AppendResult
    \/ ReturnResults
    \/ FinishFile

SpecConfig == InitConfig /\ [][NextConfig]_vars

\* raw texts: a letter, a digit, a blank and a newline
RawChars == {"a", "1", " ", "\n"}

RawTexts == SeqsUpTo(RawChars, MaxRawLen)

InitClean ==
    /\ PipelineIdle
    /\ op = "none"
    /\ args \in [text : RawTexts]
    /\ ret = <<>>

CleanText ==
    /\ op = "none"
    /\ op' = "clean_text"
    /\ ret' = [cleaned |-> clean_text(args.text),
               again |-> clean_text(clean_text(args.text))]
    /\ UNCHANGED <<args, text_chunks, max_retries, delay_between_chunks, results,
                   i, attempt, result, pc, trace>>

SpecClean == InitClean /\ [][CleanText]_vars

(***************************************************************************)
(* PDFProcessor.is_scanned_pdf.  A page is what extract_text gives for it: *)
(* None (extracted = FALSE) or a text, of which only the length after      *)
(* strip() is used.  opens = FALSE stands for pdfplumber raising.          *)
(***************************************************************************)
PageTexts ==
    {[extracted |-> FALSE, stripped_len |-> 0]}
        \cup {[extracted |-> TRUE, stripped_len |-> n] :
                  n \in {0, MinPageChars, MinPageChars + 1}}

Min(a, b) == IF a < b THEN a ELSE b

\* line 1024: `text and len(text.strip()) > 50`
HasEnoughText(page) == page.extracted /\ page.stripped_len > MinPageChars

\* lines 1017-1032
is_scanned_pdf(pdf) ==
    IF ~pdf.opens THEN TRUE
    ELSE LET text_count ==
                 Cardinality({k \in 1 .. Min(PagesChecked, Len(pdf.pages)) :
                                 HasEnoughText(pdf.pages[k])})
         IN  text_count < MinTextPages

InitScan ==
    /\ PipelineIdle
    /\ op = "none"
    /\ args \in [opens : BOOLEAN, pages : SeqsUpTo(PageTexts, MaxPages)]
    /\ ret = <<>>

IsScannedPdf ==
    /\ op = "none"
    /\ op' = "is_scanned_pdf"
    /\ ret' = [scanned |-> is_scanned_pdf(args)]
    /\ UNCHANGED <<args, text_chunks, max_retries, delay_between_chunks, results,
                   i, attempt, result, pc, trace>>

SpecScan == InitScan /\ [][IsScannedPdf]_vars

InitProgress ==
    /\ PipelineIdle
    /\ op = "none"
    /\ args \in [current : 0 .. MaxProgress, total : 0 .. MaxProgress]
    /\ ret = <<>>

GetTranslationProgress ==
    /\ op = "none"
    /\ op' = "get_translation_progress"
    /\ ret' = get_translation_progress(args.current, args.total)
    /\ UNCHANGED <<args, text_chunks, max_retries, delay_between_chunks, results,
                   i, attempt, result, pc, trace>>

SpecProgress == InitProgress /\ [][GetTranslationProgress]_vars

InitSummary ==
    /\ PipelineIdle
    /\ op = "none"
    /\ args \in OutcomeLists(MaxOutcomes)
    /\ ret = <<>>

GetTranslationSummary ==
    /\ op = "none"
    /\ op' = "get_translation_summary"
    /\ ret' = get_translation_summary(args)
    /\ UNCHANGED <<args, text_chunks, max_retries, delay_between_chunks, results,
                   i, attempt, result, pc, trace>>

SpecSummary == InitSummary /\ [][GetTranslationSummary]_vars

SplitTexts == SeqsUpTo({"a", " ", ".", "?"}, MaxTextLen)

InitSplit ==
    /\ PipelineIdle
    /\ op = "none"
    /\ args \in [text : SplitTexts, max_chunk_size : 0 .. MaxChunkSize]
    /\ ret = <<>>

Split ==
    /\ op = "none"
    /\ op' = "split"
    /\ ret' = split_text_for_translation(args.text, args.max_chunk_size)
    /\ UNCHANGED <<args, text_chunks, max_retries, delay_between_chunks, results,
                   i, attempt, result, pc, trace>>

SpecSplit == InitSplit /\ [][Split]_vars

\* the scheduler is the Python interpreter running one thread: a step that
\* can be taken is taken
FairSpec == Spec /\ WF_vars(Next)

\* runs for the claims on the order and the timing of the calls, which no
\* step makes depend on the chunks' text: one chunk list of each length
OneListPerLength(n) ==
    {[k \in 1 .. m |-> ChunkPool[(k % Len(ChunkPool)) + 1]] : m \in 0 .. n}

InitTiming ==
    /\ text_chunks \in OneListPerLength(MaxChunks)
    /\ max_retries \in (0 - 1) .. MaxRetries
    /\ delay_between_chunks = DefaultDelay
    /\ results = <<>>
    /\ i = 0
    /\ attempt = 0
    /\ result = <<>>
    /\ pc = "for_chunk"
    /\ trace = <<>>
    /\ FnIdle

SpecTiming == InitTiming /\ [][Next]_vars

(***************************************************************************)
(* The single-attempt variants of the agent:                               *)
(* TranslationAgent.batch_translate and translate_pdf_chunks.  args holds  *)
(* the method called and its arguments, i the number of texts the loop has *)
(* gone through, results the list being built; a client call is an event   *)
(* of the trace.                                                           *)
(***************************************************************************)
\* agent.py lines 96-144: as translate_pdf_content, without the type field
translate_to_chinese(text, context, reply) ==
    IF reply.raised THEN ExceptionResult(text, reply)
    ELSE IF reply.status_code = 200
    THEN [original |-> text, translation |-> Strip(reply.text), status |-> "success",
          model |-> "qwen-max"]
    ELSE ServiceErrorResult(text, reply)

\* mutant of Translatable: `if chunk:` in place of `if chunk.strip():`
TranslatableUnstripped(text) == text # <<>>

\* lines 158 and 291: `if text.strip():`
Translatable(text) == Strip(text) # <<>>

\* lines 294-295: the two fields attached to the client's result
WithChunkFields(r, chunk_index, total_chunks) ==
    [k \in DOMAIN r \cup {"chunk_index", "total_chunks"} |->
        CASE k = "chunk_index" -> chunk_index
          [] k = "total_chunks" -> total_chunks
          [] OTHER -> r[k]]

AgentCallEvent(fn, position, text, context) ==
    [ev |-> "call", fn |-> fn, position |-> position, text |-> text,
     context |-> context]

AgentReplies ==
    {[raised |-> FALSE, status_code |-> 200, text |-> <<" ", "T", "\n">>, message |-> <<>>],
     [raised |-> FALSE, status_code |-> 429, text |-> <<>>, message |-> <<"m">>],
     [raised |-> TRUE, status_code |-> 0, text |-> <<>>, message |-> <<"e">>]}

AgentTexts == {ChunkPool[k] : k \in DOMAIN ChunkPool}

InitAgent ==
    /\ PipelineIdle
    /\ op = "none"
    /\ args \in [method : {"batch_translate", "translate_pdf_chunks"},
                 texts : SeqsUpTo(AgentTexts, MaxAgentTexts),
                 context : {<<>>, <<"c">>}]
    /\ ret = <<>>

\* lines 158 and 291, the test fails: the loop goes on to the next text
AgentSkip ==
    /\ op = "none"
    /\ i < Len(args.texts)
    /\ ~Translatable(args.texts[i + 1])
    /\ i' = i + 1
    /\ UNCHANGED <<args, ret, op, text_chunks, max_retries, delay_between_chunks,
                   results, attempt, result, pc, trace>>

\* lines 159-160 and 293-296: one call of the client, its result appended
AgentTranslate ==
    /\ op = "none"
    /\ i < Len(args.texts)
    /\ Translatable(args.texts[i + 1])
    /\ \E reply \in AgentReplies :
         LET text == args.texts[i + 1]
         IN  IF args.method = "batch_translate"
             THEN /\ results' = Append(results, translate_to_chinese(text, <<>>, reply))
                  /\ trace' = Append(trace, AgentCallEvent("translate_to_chinese",
                                                           i + 1, text, <<>>))
             ELSE /\ results' =
                         Append(results,
                                WithChunkFields(
                                    translate_pdf_content(text, args.context, reply),
                                    i + 1, Len(args.texts)))
                  /\ trace' = Append(trace, AgentCallEvent("translate_pdf_content",
                                                           i + 1, text, args.context))
    /\ i' = i + 1
    /\ UNCHANGED <<args, ret, op, text_chunks, max_retries, delay_between_chunks,
                   attempt, result, pc>>

\* lines 161 and 298: return results
AgentReturn ==
    /\ op = "none"
    /\ i = Len(args.texts)
    /\ op' = args.method
    /\ ret' = results
    /\ UNCHANGED <<args, text_chunks, max_retries, delay_between_chunks, results,
                   i, attempt, result, pc, trace>>

NextAgent ==
    \/ AgentSkip
    \/ AgentTranslate
    \/ AgentReturn

SpecAgent == InitAgent /\ [][NextAgent]_vars

(***************************************************************************)
(* PDFProcessor.merge_translated_chunks.  The Chinese characters of its    *)
(* two literals are written by name, one symbol for each.                  *)
(***************************************************************************)
\* line 169
MismatchMessage ==
    <<"fan", "yi", "kuai", "shu", "liang", "bu", "pi", "pei", "zh_comma",
      "qing", "jian", "cha", "fan", "yi", "jie", "guo">>

\* line 175, k zero-based
PairBlock(k, orig, trans) ==
    <<"yuan", "wen", " ", "(", "kuai", " ">> \o Str(k + 1) \o <<")", ":", "\n">>
        \o orig \o <<"\n", "\n", "fan", "yi", ":", "\n">> \o trans

\* lines 172-175: the loop over zip(original_chunks, translated_chunks)
RECURSIVE PairLoop(_, _, _, _)
PairLoop(original_chunks, translated_chunks, k, merged_text) ==
    IF k >= Min(Len(original_chunks), Len(translated_chunks)) THEN merged_text
    ELSE PairLoop(original_chunks, translated_chunks, k + 1,
                  merged_text \o (IF k > 0 THEN <<"\n", "\n">> ELSE <<>>)
                      \o PairBlock(k, original_chunks[k + 1], translated_chunks[k + 1]))

\* mutant of merge_translated_chunks: no test of the lengths, the pairs that
\* zip gives are merged
merge_translated_chunks_zip(original_chunks, translated_chunks) ==
    PairLoop(original_chunks, translated_chunks, 0, <<>>)

merge_translated_chunks(original_chunks, translated_chunks) ==
    IF Len(original_chunks) # Len(translated_chunks) THEN MismatchMessage
    ELSE PairLoop(original_chunks, translated_chunks, 0, <<>>)

PairTexts == {<<>>, <<"a">>, <<"b", "\n">>}

InitPair ==
    /\ PipelineIdle
    /\ op = "none"
    /\ args \in [original_chunks : SeqsUpTo(PairTexts, MaxPairChunks),
                 translated_chunks : SeqsUpTo(PairTexts, MaxPairChunks)]
    /\ ret = <<>>

MergeTranslatedChunks ==
    /\ op = "none"
    /\ op' = "merge_translated_chunks"
    /\ ret' = merge_translated_chunks(args.original_chunks, args.translated_chunks)
    /\ UNCHANGED <<args, text_chunks, max_retries, delay_between_chunks, results,
                   i, attempt, result, pc, trace>>

SpecPair == InitPair /\ [][MergeTranslatedChunks]_vars

(***************************************************************************)
(* Observations on the trace.                                              *)
(***************************************************************************)
IsCall(e) == e.ev = "call"

IsCallOf(e, k) == e.ev = "call" /\ e.chunk_index = k

CallsOf(k) == SelectSeq(trace, LAMBDA e : IsCallOf(e, k))

CallCount(k) == Len(CallsOf(k))

TotalCalls == Len(SelectSeq(trace, IsCall))

AllFailed(k) == \A p \in DOMAIN trace : IsCallOf(trace[p], k) => trace[p].outcome # "success"

IsBlank(s) == Strip(s) = <<>>

\* s has sub as a contiguous part
Contains(s, sub) ==
    \E p \in 1 .. (Len(s) - Len(sub) + 1) : SubSeq(s, p, p + Len(sub) - 1) = sub

\* t is s without its leading and trailing whitespace
IsTrimOf(t, s) ==
    \E a, b \in 0 .. Len(s) :
        /\ a + b <= Len(s)
        /\ t = SubSeq(s, a + 1, Len(s) - b)
        /\ \A j \in 1 .. a : IsSpace(s[j])
        /\ \A j \in (Len(s) - b + 1) .. Len(s) : IsSpace(s[j])
        /\ t = <<>> \/ (~IsSpace(t[1]) /\ ~IsSpace(t[Len(t)]))

\* the outcome of chunk k once _translate_chunk_with_retry has returned it
Returned(k) == k <= Len(results) \/ (k = i /\ pc = "append")

OutcomeOf(k) == IF k <= Len(results) THEN results[k] ELSE result

(***************************************************************************)
(* C1: translate_pdf_chunks_with_progress returns exactly N outcomes for N *)
(* chunks, and the k-th outcome has chunk_index = k, total_chunks = N and  *)
(* original = the k-th chunk, whatever the client did (success, error,     *)
(* exception).                                                             *)
(***************************************************************************)
C1_OneOutcomePerChunkInOrder ==
    /\ Len(results) <= Len(text_chunks)
    /\ \A k \in DOMAIN results :
         /\ results[k].chunk_index = k
         /\ results[k].total_chunks = Len(text_chunks)
         /\ results[k].original = text_chunks[k]
    /\ pc = "done" => Len(results) = Len(text_chunks)

C1_Witness ==
    /\ pc = "done"
    /\ Len(text_chunks) = 2
    /\ results[1].status = "error"
    /\ results[2].status = "success"
    /\ \E p \in DOMAIN trace : IsCallOf(trace[p], 1) /\ trace[p].outcome = "raise"
    /\ \E p \in DOMAIN trace : IsCallOf(trace[p], 1) /\ trace[p].outcome = "error"

(***************************************************************************)
(* C2: the first success of the client for a chunk, on its a-th call, is   *)
(* the chunk's outcome with attempt = a, and the client is not called      *)
(* again for that chunk.                                                   *)
(***************************************************************************)
C2_FirstSuccessIsReturned ==
    \A p \in DOMAIN trace :
        (IsCall(trace[p]) /\ trace[p].outcome = "success") =>
            LET k == trace[p].chunk_index
                a == Cardinality({q \in 1 .. p : IsCallOf(trace[q], k)})
            IN  /\ \A q \in DOMAIN trace : (q > p) => ~IsCallOf(trace[q], k)
                /\ a <= max_retries
                /\ Returned(k)
                /\ OutcomeOf(k).status = "success"
                /\ OutcomeOf(k).attempt = a
                /\ OutcomeOf(k).original = text_chunks[k]
                /\ \E reply \in PipelineReplies :
                       /\ reply.status_code = 200
                       /\ IsTrimOf(OutcomeOf(k).translation, reply.text)

C2_Witness ==
    /\ pc = "done"
    /\ max_retries = 3
    /\ Len(results) >= 1
    /\ results[1].status = "success"
    /\ results[1].attempt = 3
    /\ CallCount(1) = 3
    /\ CallsOf(1)[1].outcome = "error"
    /\ CallsOf(1)[2].outcome = "raise"

(***************************************************************************)
(* C3: when every one of the max_retries >= 1 attempts of a chunk failed,  *)
(* the client was called exactly max_retries times for it and the outcome  *)
(* is status = error, original = the chunk, translation = a placeholder    *)
(* holding the chunk index, error = a message holding max_retries.         *)
(***************************************************************************)
C3_ExhaustedOutcome ==
    \A k \in 1 .. Len(text_chunks) :
        (max_retries >= 1 /\ Returned(k) /\ AllFailed(k)) =>
            /\ CallCount(k) = max_retries
            /\ OutcomeOf(k).status = "error"
            /\ OutcomeOf(k).original = text_chunks[k]
            /\ Contains(OutcomeOf(k).translation, Str(k))
            /\ Head(OutcomeOf(k).translation) = "["
            /\ Contains(OutcomeOf(k).error, Str(max_retries))

C3_Witness ==
    /\ pc = "done"
    /\ max_retries = 3
    /\ Len(results) = 2
    /\ AllFailed(2)
    /\ CallCount(2) = 3
    /\ results[2].status = "error"
    /\ results[1].status = "success"

(***************************************************************************)
(* C4: no chunk failure aborts the pipeline: with max_retries >= 1 every   *)
(* chunk has been attempted (at least one client call) when the run        *)
(* returns, whatever the outcomes of the chunks before it were.            *)
(***************************************************************************)
C4_NoFailureAborts ==
    (pc = "done" /\ max_retries >= 1) =>
        \A k \in 1 .. Len(text_chunks) : CallCount(k) >= 1

C4_Witness ==
    /\ pc = "done"
    /\ Len(text_chunks) = 2
    /\ max_retries = 2
    /\ AllFailed(1)
    /\ CallsOf(1)[1].outcome = "raise"
    /\ CallsOf(1)[2].outcome = "raise"
    /\ CallCount(2) >= 1

(***************************************************************************)
(* C5: for max_retries >= 0 the run terminates with every chunk in a       *)
(* terminal state (a success outcome or the exhausted outcome) after at    *)
(* most N * max_retries client calls.                                      *)
(***************************************************************************)
Terminal(r) ==
    \/ r.status = "success" /\ "attempt" \in DOMAIN r
    \/ r.status = "error" /\ Head(r.translation) = "["

C5_Terminated ==
    /\ pc = "done"
    /\ Len(results) = Len(text_chunks)
    /\ \A k \in DOMAIN results : Terminal(results[k])
    /\ TotalCalls <= Len(text_chunks) * max_retries

C5_TerminatesWithinCallBound == (max_retries >= 0) => <>[]C5_Terminated

C5_Witness ==
    /\ C5_Terminated
    /\ max_retries = 3
    /\ Len(text_chunks) = 2
    /\ TotalCalls = 6

(***************************************************************************)
(* C6: an empty or whitespace-only chunk is never submitted to the client  *)
(* and produces no outcome in the returned list.                           *)
(***************************************************************************)
C6_BlankChunkSkipped ==
    /\ \A p \in DOMAIN trace : IsCall(trace[p]) => ~IsBlank(trace[p].text)
    /\ \A k \in DOMAIN results : ~IsBlank(results[k].original)

(***************************************************************************)
(* Blocks of a merged text: block k of the outcome list starts after the   *)
(* k - 1 blocks and separators before it.                                  *)
(***************************************************************************)
ExpectedMarker(index) ==
    <<"[", "yuan", "wen", " ", "-", " ", "kuai", " ">> \o Str(index) \o <<"]", ":", "\n">>

ExpectedBlock(outcomes, k) ==
    IF outcomes[k].status = "success" THEN outcomes[k].translation
    ELSE ExpectedMarker(IF "chunk_index" \in DOMAIN outcomes[k]
                        THEN outcomes[k].chunk_index ELSE k)
             \o outcomes[k].original

RECURSIVE BlockStart(_, _)
BlockStart(outcomes, k) ==
    IF k = 1 THEN 1
    ELSE BlockStart(outcomes, k - 1) + Len(ExpectedBlock(outcomes, k - 1)) + 2

BlockAt(text, outcomes, k) ==
    SubSeq(text, BlockStart(outcomes, k),
           BlockStart(outcomes, k) + Len(ExpectedBlock(outcomes, k)) - 1)

SeparatorAfter(text, outcomes, k) ==
    SubSeq(text, BlockStart(outcomes, k) + Len(ExpectedBlock(outcomes, k)),
           BlockStart(outcomes, k + 1) - 1)

AllSuccess(outcomes) == \A k \in DOMAIN outcomes : outcomes[k].status = "success"

(***************************************************************************)
(* C7: _merge_translation_results of N outcomes that all have status =     *)
(* success is the N translations in list order, with one "\n\n" between    *)
(* each adjacent pair and no leading or trailing separator.                *)
(***************************************************************************)
C7_MergeAllSuccess ==
    (op = "merge" /\ AllSuccess(args)) =>
        /\ Len(ret) = IF args = <<>> THEN 0
                      ELSE BlockStart(args, Len(args)) + Len(args[Len(args)].translation) - 1
        /\ \A k \in DOMAIN args : BlockAt(ret, args, k) = args[k].translation
        /\ \A k \in 1 .. (Len(args) - 1) : SeparatorAfter(ret, args, k) = <<"\n", "\n">>

C7_Witness ==
    /\ op = "merge"
    /\ Len(args) = 3
    /\ AllSuccess(args)
    /\ args[1].translation # args[2].translation
    /\ ret = args[1].translation \o <<"\n", "\n">> \o args[2].translation
                 \o <<"\n", "\n">> \o args[3].translation

(***************************************************************************)
(* C8: in the merged text every outcome with status = error has, at its    *)
(* position among the blocks, a block made of a marker naming its chunk    *)
(* index followed by its original text; the merged text is exactly one     *)
(* block per outcome, so no chunk's content is dropped.                    *)
(***************************************************************************)
C8_MergeKeepsFailedOriginal ==
    (op = "merge") =>
        /\ Len(ret) = IF args = <<>> THEN 0
                      ELSE BlockStart(args, Len(args))
                               + Len(ExpectedBlock(args, Len(args))) - 1
        /\ \A k \in DOMAIN args :
               (args[k].status = "error") =>
                   /\ BlockAt(ret, args, k) = ExpectedBlock(args, k)
                   /\ Contains(BlockAt(ret, args, k), args[k].original)
                   /\ ("chunk_index" \in DOMAIN args[k]) =>
                          Contains(BlockAt(ret, args, k), Str(args[k].chunk_index))
        /\ \A k \in 1 .. (Len(args) - 1) : SeparatorAfter(ret, args, k) = <<"\n", "\n">>

C8_Witness ==
    /\ op = "merge"
    /\ Len(args) = 3
    /\ args[1].status = "success"
    /\ args[2].status = "error"
    /\ args[2].original = <<"b", "\n", "\n", "c">>
    /\ args[3].status = "error"
    /\ Contains(ret, args[2].original)

(***************************************************************************)
(* C9: translate_pdf_content always returns a result and never raises:     *)
(* status = success with translation = the trimmed response text when the  *)
(* service answers 200; status = error with empty translation and the      *)
(* service's message when it answers another code; status = error with     *)
(* empty translation and the exception's message when the call raises.     *)
(* In all three cases original = text.                                     *)
(***************************************************************************)
C9_ClientNeverRaises ==
    (op = "translate_pdf_content") =>
        /\ {"status", "translation", "original"} \subseteq DOMAIN ret
        /\ ret.original = args.text
        /\ IF args.reply.raised
           THEN /\ ret.status = "error"
                /\ ret.translation = <<>>
                /\ ret.error = args.reply.message
           ELSE IF args.reply.status_code = 200
           THEN /\ ret.status = "success"
                /\ IsTrimOf(ret.translation, args.reply.text)
           ELSE /\ ret.status = "error"
                /\ ret.translation = <<>>
                /\ Contains(ret.error, args.reply.message)
                /\ Len(ret.error) > Len(args.reply.message)

C9_Witness ==
    /\ op = "translate_pdf_content"
    /\ ~args.reply.raised
    /\ args.reply.status_code = 200
    /\ args.reply.text = <<" ", "x", "\n">>
    /\ ret.status = "success"
    /\ ret.translation = <<"x">>

(***************************************************************************)
(* C10: for a text with len(text) <= max_chunk_size,                       *)
(* split_text_for_translation returns exactly one chunk, the text itself.  *)
(***************************************************************************)
C10_ShortTextIsOneChunk ==
    (op = "split" /\ Len(args.text) <= args.max_chunk_size) =>
        /\ Len(ret) = 1
        /\ ret[1] = args.text

C10_Witness ==
    /\ op = "split"
    /\ Len(args.text) = args.max_chunk_size
    /\ args.text = <<" ", "a", ".", " ">>
    /\ ret = <<args.text>>

(***************************************************************************)
(* Sentences of a text and of a chunk, cut independently of the chunker.   *)
(***************************************************************************)
\* position of the first terminator of s, 0 when it has none
FirstTerminator(s) ==
    IF \E p \in DOMAIN s : s[p] \in Terminators
    THEN CHOOSE p \in DOMAIN s :
             /\ s[p] \in Terminators
             /\ \A q \in 1 .. (p - 1) : s[q] \notin Terminators
    ELSE 0

\* the non-empty trimmed pieces of s between its terminators
RECURSIVE SentencesOf(_)
SentencesOf(s) ==
    LET p == FirstTerminator(s)
        piece == Strip(IF p = 0 THEN s ELSE SubSeq(s, 1, p - 1))
        here == IF piece = <<>> THEN <<>> ELSE <<piece>>
    IN  IF p = 0 THEN here ELSE here \o SentencesOf(SubSeq(s, p + 1, Len(s)))

\* position of the first ". " of chunk, 0 when it has none
FirstJoiner(chunk) ==
    IF \E p \in 1 .. (Len(chunk) - 1) : chunk[p] = "." /\ chunk[p + 1] = " "
    THEN CHOOSE p \in 1 .. (Len(chunk) - 1) :
             /\ chunk[p] = "." /\ chunk[p + 1] = " "
             /\ \A q \in 1 .. (p - 1) : ~(chunk[q] = "." /\ chunk[q + 1] = " ")
    ELSE 0

\* the pieces of a chunk between its ". " joiners
RECURSIVE JoinerCut(_)
JoinerCut(chunk) ==
    LET p == FirstJoiner(chunk)
    IN  IF p = 0 THEN <<chunk>>
        ELSE <<SubSeq(chunk, 1, p - 1)>> \o JoinerCut(SubSeq(chunk, p + 2, Len(chunk)))

RECURSIVE ChunkSentences(_)
ChunkSentences(chunks) ==
    IF chunks = <<>> THEN <<>>
    ELSE JoinerCut(Head(chunks)) \o ChunkSentences(Tail(chunks))

HasContent(text) == \E p \in DOMAIN text : ~IsSpace(text[p]) /\ text[p] \notin Terminators

(***************************************************************************)
(* C11: for a text longer than max_chunk_size, the non-empty trimmed       *)
(* sentences of the text, cut at the terminators, are in the same order    *)
(* the sentences of the returned chunks, cut at their ". " joiners: none   *)
(* is dropped, duplicated, reordered or split across two chunks.           *)
(***************************************************************************)
C11_SentencesPreserved ==
    (op = "split" /\ Len(args.text) > args.max_chunk_size) =>
        ChunkSentences(ret) = SentencesOf(args.text)

C11_Witness ==
    /\ op = "split"
    /\ args.text = <<"a", ".", "a", "?", "a">>
    /\ args.max_chunk_size = 2
    /\ ret = <<<<"a", ".", " ", "a">>, <<"a">>>>

(***************************************************************************)
(* C12 as claimed: a text that is not empty and not whitespace-only gives  *)
(* at least one chunk, for every max_chunk_size; the empty list is         *)
(* returned only for an empty or whitespace-only text.                     *)
(***************************************************************************)
C12_NonBlankGivesChunk ==
    (op = "split") =>
        /\ ~IsBlank(args.text) => Len(ret) >= 1
        /\ ret = <<>> => IsBlank(args.text)

(***************************************************************************)
(* C12 as amended: a text holding a character that is neither whitespace   *)
(* nor a terminator gives at least one chunk, for every max_chunk_size;    *)
(* the empty list is returned exactly for a text longer than               *)
(* max_chunk_size made of terminators and whitespace only.                 *)
(***************************************************************************)
C12_ContentGivesChunk ==
    (op = "split") =>
        /\ HasContent(args.text) => Len(ret) >= 1
        /\ ret = <<>> <=> (Len(args.text) > args.max_chunk_size /\ ~HasContent(args.text))

C12_Witness ==
    /\ op = "split"
    /\ args.text = <<".", " ", "?">>
    /\ args.max_chunk_size = 2
    /\ ret = <<>>

(***************************************************************************)
(* C13: a returned chunk is longer than max_chunk_size only if it is one   *)
(* single sentence: a buffer that the next sentence would push over        *)
(* max_chunk_size is emitted first.                                        *)
(***************************************************************************)
C13_LongChunkIsOneSentence ==
    (op = "split") =>
        \A k \in DOMAIN ret :
            Len(ret[k]) > args.max_chunk_size => Len(JoinerCut(ret[k])) = 1

\* p hundredths is num / den * 100 rounded to two decimals: the hundredth
\* nearest to the quotient
IsRoundedPercent(p, num, den) ==
    LET diff == p * den - num * 10000
    IN  2 * (IF diff < 0 THEN 0 - diff ELSE diff) <= den

(***************************************************************************)
(* C14: get_translation_progress(current, total) returns remaining =       *)
(* total - current, status = completed when current >= total and           *)
(* in_progress otherwise, percentage = current / total * 100 rounded to 2  *)
(* decimals when total > 0 and 0 when total = 0; (5,10) gives              *)
(* 50.0 / 5 / in_progress, (10,10) gives 100.0 / 0 / completed and (0,0)   *)
(* gives 0 / 0 / completed.                                                *)
(***************************************************************************)
C14_Progress ==
    (op = "get_translation_progress") =>
        /\ ret.remaining = args.total - args.current
        /\ ret.status = IF args.current >= args.total THEN "completed" ELSE "in_progress"
        /\ IF args.total > 0
           THEN IsRoundedPercent(ret.percentage, args.current, args.total)
           ELSE ret.percentage = 0
        /\ (args.current = 5 /\ args.total = 10) =>
               ret.percentage = 5000 /\ ret.remaining = 5 /\ ret.status = "in_progress"
        /\ (args.current = 10 /\ args.total = 10) =>
               ret.percentage = 10000 /\ ret.remaining = 0 /\ ret.status = "completed"
        /\ (args.current = 0 /\ args.total = 0) =>
               ret.percentage = 0 /\ ret.remaining = 0 /\ ret.status = "completed"

C14_Witness ==
    /\ op = "get_translation_progress"
    /\ args.current = 1
    /\ args.total = 3
    /\ ret.percentage = 3333
    /\ ret.remaining = 2
    /\ ret.status = "in_progress"

(***************************************************************************)
(* C15: get_translation_summary returns total_chunks = the list length,    *)
(* successful_chunks = the number of outcomes with status success,         *)
(* failed_chunks = total_chunks - successful_chunks, and success_rate =    *)
(* successful / total * 100 rounded to 2 decimals, or 0 for the empty list.*)
(***************************************************************************)
C15_SummaryCounts ==
    (op = "get_translation_summary") =>
        /\ ret.total_chunks = Len(args)
        /\ ret.successful_chunks =
               Cardinality({k \in DOMAIN args : args[k].status = "success"})
        /\ ret.failed_chunks = ret.total_chunks - ret.successful_chunks
        /\ ret.successful_chunks + ret.failed_chunks = ret.total_chunks
        /\ IF args = <<>> THEN ret.success_rate = 0
           ELSE IsRoundedPercent(ret.success_rate, ret.successful_chunks, ret.total_chunks)

C15_Witness ==
    /\ op = "get_translation_summary"
    /\ Len(args) = 3
    /\ ret.successful_chunks = 2
    /\ ret.failed_chunks = 1
    /\ ret.success_rate = 6667
    /\ args[2].status = "error"
    /\ args[2].translation # <<>>

\* the sum of the first n values of f, taken from the end
RECURSIVE SumUpTo(_, _)
SumUpTo(f, n) == IF n = 0 THEN 0 ELSE SumUpTo(f, n - 1) + f[n]

(***************************************************************************)
(* C16: total_original_chars is the sum of the lengths of the originals of *)
(* all outcomes; total_translated_chars is the sum of the lengths of the   *)
(* translations of the success outcomes only: the placeholder of an        *)
(* exhausted outcome of the pipeline is not counted.                       *)
(***************************************************************************)
C16_SummaryChars ==
    (op = "get_translation_summary") =>
        /\ ret.total_original_chars =
               SumUpTo([k \in DOMAIN args |-> Len(args[k].original)], Len(args))
        /\ ret.total_translated_chars =
               SumUpTo([k \in DOMAIN args |->
                           IF args[k].status = "success" THEN Len(args[k].translation)
                           ELSE 0], Len(args))

C16_Witness ==
    /\ op = "get_translation_summary"
    /\ Len(args) = 2
    /\ args[1].status = "success"
    /\ args[1].translation = <<"U", "\n", "\n", "V">>
    /\ args[2] = ExhaustedResult(<<"b", "\n", "\n", "c">>, 2, MaxOutcomes, DefaultMaxRetries)
    /\ ret.total_original_chars = 5
    /\ ret.total_translated_chars = 4

(***************************************************************************)
(* Observations on a run of translate_pdf_file.                            *)
(***************************************************************************)
FileReturned == op = "translate_pdf_file"

ExtractionSucceeded ==
    args.exists /\ args.info_ok /\ ~args.scanned /\ args.extract_ok

IsEvent(e, kind) == e.ev = kind

EventsOf(kind) == SelectSeq(trace, LAMBDA e : IsEvent(e, kind))

ExportedFormats == [k \in DOMAIN EventsOf("export") |-> EventsOf("export")[k].format]

(***************************************************************************)
(* C17: whenever text extraction succeeded, translate_pdf_file returns     *)
(* status = success for every mix of chunk outcomes, also when every chunk *)
(* failed, with successful_chunks + failed_chunks = total_chunks = the     *)
(* number of chunks the chunker produced.                                  *)
(***************************************************************************)
C17_FileSucceedsWhateverChunksDid ==
    (FileReturned /\ ExtractionSucceeded) =>
        /\ ret.status = "success"
        /\ ret.successful_chunks + ret.failed_chunks = ret.total_chunks
        /\ ret.total_chunks = Len(text_chunks)
        /\ ret.failed_chunks =
               Cardinality({k \in DOMAIN results : results[k].status # "success"})
        /\ ret.successful_chunks =
               Cardinality({k \in DOMAIN results : results[k].status = "success"})

C17_Witness ==
    /\ FileReturned
    /\ ExtractionSucceeded
    /\ max_retries = 2
    /\ Len(text_chunks) = 3
    /\ \A k \in 1 .. 3 : AllFailed(k) /\ CallCount(k) = 2
    /\ ret.status = "success"
    /\ ret.failed_chunks = 3

(***************************************************************************)
(* C18: when the file does not exist, the PDF info lookup reports an       *)
(* error, the PDF is detected as scanned, or text extraction does not      *)
(* report success, translate_pdf_file returns a non-success result (error  *)
(* or warning) and the pipeline never starts: no client call and no export *)
(* in that run.                                                            *)
(***************************************************************************)
C18_RejectedRunDoesNothing ==
    (~args.exists \/ ~args.info_ok \/ args.scanned \/ ~args.extract_ok) =>
        /\ op # "translating"
        /\ EventsOf("call") = <<>>
        /\ EventsOf("export") = <<>>
        /\ EventsOf("makedirs") = <<>>
        /\ results = <<>>
        /\ FileReturned => ret.status \in {"error", "warning"}

C18_Witness ==
    /\ FileReturned
    /\ args.exists /\ args.info_ok /\ args.extract_ok /\ args.scanned
    /\ args.text # <<>>
    /\ max_retries = 2
    /\ ret.status = "warning"

(***************************************************************************)
(* C19 as claimed: in _export_translation_results the txt, docx and pdf    *)
(* exports are each attempted once, in that order, whatever the results of *)
(* the earlier ones, and the returned bundle holds one result entry for    *)
(* each of the three formats.                                              *)
(***************************************************************************)
C19_ThreeExportsAlways ==
    (FileReturned /\ ExtractionSucceeded) =>
        /\ ExportedFormats = <<"txt", "docx", "pdf">>
        /\ "formats" \in DOMAIN ret.export_result
        /\ DOMAIN ret.export_result.formats = {"txt", "docx", "pdf"}

(***************************************************************************)
(* C19 as amended: when creating the output directory does not raise, the  *)
(* txt, docx and pdf exports are each attempted once, in that order,       *)
(* whatever the results of the earlier ones, and the bundle holds the      *)
(* result of each of the three; when it raises, no export is attempted and *)
(* the bundle is an error result without per-format entries.               *)
(***************************************************************************)
C19_ThreeExportsOnceDirectoryExists ==
    (FileReturned /\ ExtractionSucceeded) =>
        /\ Len(EventsOf("makedirs")) = 1
        /\ IF EventsOf("makedirs")[1].ok
           THEN /\ ExportedFormats = <<"txt", "docx", "pdf">>
                /\ ret.export_result.status = "success"
                /\ DOMAIN ret.export_result.formats = {"txt", "docx", "pdf"}
                /\ \A k \in 1 .. 3 :
                       ret.export_result.formats[ExportedFormats[k]].status
                           = EventsOf("export")[k].status
           ELSE /\ ExportedFormats = <<>>
                /\ ret.export_result.status = "error"
                /\ "formats" \notin DOMAIN ret.export_result

C19_Witness ==
    /\ FileReturned
    /\ ExtractionSucceeded
    /\ Len(EventsOf("export")) = 3
    /\ ret.export_result.formats.txt.status = "error"
    /\ ret.export_result.formats.docx.status = "success"
    /\ ret.export_result.formats.pdf.status = "error"

(***************************************************************************)
(* C20: for a document whose text is at most chunk_size long and a client  *)
(* that succeeds on its first call, a run produces exactly one chunk,      *)
(* makes exactly one client call with no backoff wait and no inter-chunk   *)
(* delay, and the merged translated text is the client's translation of    *)
(* that chunk.                                                             *)
(***************************************************************************)
C20_ShortDocumentOneCall ==
    (/\ FileReturned
     /\ ExtractionSucceeded
     /\ Len(args.text) <= args.chunk_size
     /\ EventsOf("call") # <<>>
     /\ EventsOf("call")[1].outcome = "success") =>
        /\ text_chunks = <<args.text>>
        /\ Len(EventsOf("call")) = 1
        /\ EventsOf("call")[1].text = args.text
        /\ EventsOf("sleep") = <<>>
        /\ Len(results) = 1
        /\ ret.translated_text = results[1].translation
        /\ \E reply \in PipelineReplies :
               reply.status_code = 200 /\ IsTrimOf(ret.translated_text, reply.text)

C20_Witness ==
    /\ FileReturned
    /\ ExtractionSucceeded
    /\ args.text = <<"A", ".", " ", "B", ".", " ", "C", ".">>
    /\ args.chunk_size = DefaultChunkSize
    /\ Len(EventsOf("call")) = 1
    /\ ret.translated_text = <<"T">>

(***************************************************************************)
(* C21: _clean_text is idempotent: for every input string x,               *)
(* _clean_text(_clean_text(x)) = _clean_text(x).                           *)
(***************************************************************************)
C21_CleanTextIdempotent ==
    (op = "clean_text") => ret.again = ret.cleaned

(***************************************************************************)
(* Observations on the events of a pipeline run.                           *)
(***************************************************************************)
IsFailedCall(e) == e.ev = "call" /\ e.outcome # "success"

IsSleep(e, why) == e.ev = "sleep" /\ e.why = why

IsProgress(e) == e.ev = "progress"

BackoffsOf(k) ==
    SelectSeq(trace, LAMBDA e : IsSleep(e, "backoff") /\ e.chunk_index = k)

Delays == SelectSeq(trace, LAMBDA e : IsSleep(e, "delay"))

Reports == SelectSeq(trace, IsProgress)

(***************************************************************************)
(* C22: after the failed attempt number a of a chunk (a counted from 0)    *)
(* with a < max_retries - 1 the pipeline waits exactly 2^a time units      *)
(* before the next attempt; no backoff wait occurs after a successful      *)
(* attempt or after the last permitted attempt.                            *)
(***************************************************************************)
C22_BackoffIsTwoToTheAttempt ==
    \A p \in DOMAIN trace :
        /\ (IsFailedCall(trace[p]) /\ trace[p].attempt - 1 < max_retries - 1) =>
               /\ p < Len(trace)
               /\ IsSleep(trace[p + 1], "backoff")
               /\ trace[p + 1].chunk_index = trace[p].chunk_index
               /\ trace[p + 1].seconds = 2 ^ (trace[p].attempt - 1)
               /\ (p + 2 <= Len(trace)) =>
                      /\ IsCallOf(trace[p + 2], trace[p].chunk_index)
                      /\ trace[p + 2].attempt = trace[p].attempt + 1
        /\ IsSleep(trace[p], "backoff") =>
               /\ p > 1
               /\ IsFailedCall(trace[p - 1])
               /\ trace[p - 1].attempt < max_retries

C22_Witness ==
    /\ pc = "done"
    /\ max_retries = 3
    /\ Len(text_chunks) = 2
    /\ AllFailed(1)
    /\ CallCount(1) = 3
    /\ [k \in DOMAIN BackoffsOf(1) |-> BackoffsOf(1)[k].seconds] = <<1, 2>>
    /\ CallCount(2) = 2
    /\ results[2].status = "success"
    /\ [k \in DOMAIN BackoffsOf(2) |-> BackoffsOf(2)[k].seconds] = <<1>>

(***************************************************************************)
(* C23: in a run over N >= 1 chunks exactly N - 1 inter-chunk delays of    *)
(* delay_between_chunks are observed: one after each chunk except the last *)
(* reaches its terminal state, succeeded or exhausted, and before the next *)
(* chunk's first attempt, and none after the last chunk.                   *)
(***************************************************************************)
C23_DelayBetweenChunksOnly ==
    /\ \A p \in DOMAIN trace :
           IsSleep(trace[p], "delay") =>
               /\ trace[p].seconds = delay_between_chunks
               /\ trace[p].chunk_index < Len(text_chunks)
               /\ trace[p].chunk_index <= Len(results)
               /\ p > 1
               /\ IsProgress(trace[p - 1])
               /\ trace[p - 1].progress.current = trace[p].chunk_index
               /\ (p < Len(trace) /\ IsCall(trace[p + 1])) =>
                      /\ trace[p + 1].chunk_index = trace[p].chunk_index + 1
                      /\ trace[p + 1].attempt = 1
    /\ LET delays == Delays
       IN  /\ \A k \in DOMAIN delays : delays[k].chunk_index = k
           /\ Len(delays) = (IF Len(results) < Len(text_chunks) THEN Len(results)
                             ELSE IF Len(text_chunks) = 0 THEN 0
                             ELSE Len(text_chunks) - 1)
           /\ (pc = "done" /\ Len(text_chunks) >= 1) =>
                  Len(delays) = Len(text_chunks) - 1

C23_Witness ==
    /\ pc = "done"
    /\ max_retries = 2
    /\ Len(text_chunks) = 2
    /\ AllFailed(1)
    /\ CallCount(1) = 2
    /\ results[2].status = "success"
    /\ Len(Delays) = 1
    /\ IsSleep(trace[Len(trace) - 1], "delay") = FALSE
    /\ IsProgress(trace[Len(trace)])

(***************************************************************************)
(* C24: client calls are issued in non-decreasing chunk-index order, one   *)
(* at a time: the first attempt for chunk k+1 starts only after chunk k    *)
(* has reached a terminal state, and no attempt for chunk k is made after  *)
(* an attempt for chunk k+1.                                               *)
(***************************************************************************)
C24_CallsInChunkOrder ==
    /\ LET calls == SelectSeq(trace, IsCall)
       IN  \A c \in 1 .. (Len(calls) - 1) :
               calls[c].chunk_index <= calls[c + 1].chunk_index
    /\ \A p \in DOMAIN trace :
           (IsCall(trace[p]) /\ trace[p].chunk_index > 1 /\ trace[p].attempt = 1) =>
               /\ p > 2
               /\ IsProgress(trace[p - 2])
               /\ trace[p - 2].progress.current = trace[p].chunk_index - 1
               /\ trace[p - 2].progress.current <= Len(results)
               /\ IsSleep(trace[p - 1], "delay")
    /\ \A k \in 1 .. Len(text_chunks) :
           /\ CallCount(k) > 0 => k <= i
           /\ k < i => k <= Len(results)

C24_Witness ==
    /\ pc = "done"
    /\ Len(text_chunks) = 2
    /\ CallCount(1) = 2
    /\ CallCount(2) = 3
    /\ results[1].status = "success"

\* the step is an attempt that failed, by an error result or by an exception
FailedAttemptStep ==
    /\ Len(trace') > Len(trace)
    /\ IsFailedCall(trace'[Len(trace) + 1])

(***************************************************************************)
(* C25: an attempt in which the client raises is handled for retry         *)
(* purposes exactly like one that returns status = error: it consumes one  *)
(* attempt, is followed by the same backoff wait and leads to the same     *)
(* next state, so failure sequences of equal length made of any mix of     *)
(* the two give the same number of calls, the same waits and the same      *)
(* terminal state.                                                         *)
(***************************************************************************)
C25_ExceptionHandledLikeError ==
    /\ [][FailedAttemptStep =>
            /\ trace'[Len(trace) + 1].outcome \in {"error", "raise"}
            /\ trace'[Len(trace) + 1].attempt = attempt + 1
            /\ trace'[Len(trace) + 1].chunk_index = i
            /\ SubSeq(trace', Len(trace) + 2, Len(trace')) =
                   IF attempt + 1 < max_retries
                   THEN <<[ev |-> "sleep", why |-> "backoff", chunk_index |-> i,
                           seconds |-> 2 ^ attempt]>>
                   ELSE <<>>
            /\ attempt' = attempt + 1
            /\ pc' = pc
            /\ <<text_chunks, max_retries, delay_between_chunks, results, i, result>>'
                   = <<text_chunks, max_retries, delay_between_chunks, results, i, result>>
         ]_vars
    /\ [](\A k \in 1 .. Len(text_chunks) :
              (Returned(k) /\ AllFailed(k) /\ max_retries >= 0) =>
                  /\ CallCount(k) = max_retries
                  /\ Len(BackoffsOf(k)) = (IF max_retries = 0 THEN 0 ELSE max_retries - 1)
                  /\ OutcomeOf(k).status = "error"
                  /\ \A j \in 1 .. Len(text_chunks) :
                         (Returned(j) /\ AllFailed(j)) =>
                             /\ OutcomeOf(j).error = OutcomeOf(k).error
                             /\ DOMAIN OutcomeOf(j) = DOMAIN OutcomeOf(k))

C25_Witness ==
    /\ pc = "done"
    /\ max_retries = 3
    /\ Len(text_chunks) = 2
    /\ CallCount(1) = 3
    /\ CallCount(2) = 3
    /\ [k \in 1 .. 3 |-> CallsOf(1)[k].outcome] = <<"error", "raise", "error">>
    /\ [k \in 1 .. 3 |-> CallsOf(2)[k].outcome] = <<"raise", "raise", "error">>
    /\ Len(BackoffsOf(1)) = 2
    /\ Len(BackoffsOf(2)) = 2

(***************************************************************************)
(* C26: during a run over N chunks progress is computed exactly once after *)
(* each chunk reaches its terminal state, with current = 1, 2, ..., N in   *)
(* that order and total = N; the status is in_progress for every report    *)
(* except the last and completed for the last, and the percentage never    *)
(* decreases and is 100.0 (10000 hundredths) at the last report.           *)
(***************************************************************************)
C26_ProgressAfterEachChunk ==
    /\ LET reports == Reports
       IN  /\ Len(reports) = Len(results)
           /\ \A k \in DOMAIN reports :
                  /\ reports[k].progress.current = k
                  /\ reports[k].progress.total = Len(text_chunks)
                  /\ reports[k].progress.status =
                         (IF k < Len(text_chunks) THEN "in_progress" ELSE "completed")
                  /\ k > 1 => reports[k].progress.percentage
                                  >= reports[k - 1].progress.percentage
                  /\ k = Len(text_chunks) => reports[k].progress.percentage = 10000
    /\ \A p \in DOMAIN trace :
           IsProgress(trace[p]) =>
               /\ (p > 1 /\ IsCall(trace[p - 1])) =>
                      trace[p - 1].chunk_index = trace[p].progress.current
               /\ (max_retries >= 1) => (p > 1 /\ IsCall(trace[p - 1]))
               /\ (p < Len(trace)) =>
                      /\ IsSleep(trace[p + 1], "delay")
                      /\ trace[p + 1].chunk_index = trace[p].progress.current

C26_Witness ==
    /\ pc = "done"
    /\ max_retries = 2
    /\ Len(text_chunks) = 2
    /\ AllFailed(1)
    /\ CallCount(1) = 2
    /\ results[2].status = "success"
    /\ LET reports == Reports
       IN  /\ [k \in DOMAIN reports |-> reports[k].progress.percentage] = <<5000, 10000>>
           /\ [k \in DOMAIN reports |-> reports[k].progress.status]
                  = <<"in_progress", "completed">>

\* the sum of 2^j for j in 0 .. n-1
RECURSIVE SumOfPowers(_)
SumOfPowers(n) == IF n <= 0 THEN 0 ELSE SumOfPowers(n - 1) + 2 ^ (n - 1)

(***************************************************************************)
(* C27: for any max_retries >= 1 and any client behaviour the total        *)
(* backoff time waited for one chunk is at most the sum of 2^j for j in    *)
(* 0 .. max_retries - 1, and the number of client calls for that chunk is  *)
(* at most max_retries.                                                    *)
(***************************************************************************)
C27_BackoffAndCallsBounded ==
    (max_retries >= 1) =>
        \A k \in 1 .. Len(text_chunks) :
            /\ LET waits == BackoffsOf(k)
               IN  SumUpTo([j \in DOMAIN waits |-> waits[j].seconds], Len(waits))
                       <= SumOfPowers(max_retries)
            /\ CallCount(k) <= max_retries

C27_Witness ==
    /\ pc = "done"
    /\ max_retries = 3
    /\ Len(text_chunks) = 1
    /\ AllFailed(1)
    /\ CallCount(1) = 3
    /\ LET waits == BackoffsOf(1)
       IN  SumUpTo([j \in DOMAIN waits |-> waits[j].seconds], Len(waits)) = 3

(***************************************************************************)
(* C28: every outcome returned by the pipeline, succeeded or exhausted,    *)
(* carries an attempt count, and that count equals the number of client    *)
(* calls that were made for that chunk.                                    *)
(***************************************************************************)
C28_OutcomeCarriesAttemptCount ==
    \A k \in DOMAIN results :
        /\ "attempt" \in DOMAIN results[k]
        /\ results[k].attempt = CallCount(k)

\* text[a .. b] is a line of the text
IsLine(text, a, b) ==
    /\ a = 1 \/ text[a - 1] = "\n"
    /\ b = Len(text) \/ text[b + 1] = "\n"
    /\ \A j \in a .. b : text[j] # "\n"

\* two blocks with content, with a line of blanks only between them
TwoBlocks(text) ==
    \E a \in 2 .. Len(text), b \in 1 .. (Len(text) - 1) :
        /\ a <= b + 1
        /\ IsLine(text, a, b)
        /\ \A j \in a .. b : IsSpace(text[j])
        /\ \E j \in 1 .. (a - 2) : ~IsSpace(text[j])
        /\ \E j \in (b + 2) .. Len(text) : ~IsSpace(text[j])

(***************************************************************************)
(* C29: for raw text made of two non-empty blocks separated by a blank     *)
(* line the output of _clean_text still holds an explicit paragraph        *)
(* separator between the content of the two blocks, while every other run  *)
(* of whitespace is collapsed to a single space.                           *)
(***************************************************************************)
C29_ParagraphBreakSurvives ==
    (op = "clean_text" /\ TwoBlocks(args.text)) =>
        /\ Contains(ret.cleaned, <<"\n", "\n">>)
        /\ \A p \in 1 .. (Len(ret.cleaned) - 1) :
               (IsSpace(ret.cleaned[p]) /\ IsSpace(ret.cleaned[p + 1])) =>
                   (ret.cleaned[p] = "\n" /\ ret.cleaned[p + 1] = "\n")

\* every digit of the text is on a line made of digits only, and there is
\* such a line
OnlyPageNumberDigits(text) ==
    /\ \E j \in DOMAIN text : text[j] \in DigitChars
    /\ \A j \in DOMAIN text :
           text[j] \in DigitChars =>
               \E a \in 1 .. j, b \in j .. Len(text) :
                   /\ IsLine(text, a, b)
                   /\ \A m \in a .. b : text[m] \in DigitChars

(***************************************************************************)
(* C30: for raw multi-line text every line that consists solely of digits  *)
(* (a page-number line) is removed by _clean_text: the digits of such a    *)
(* line do not appear in the output.                                       *)
(***************************************************************************)
C30_PageNumberLinesRemoved ==
    (/\ op = "clean_text"
     /\ \E j \in DOMAIN args.text : args.text[j] = "\n"
     /\ OnlyPageNumberDigits(args.text)) =>
        \A p \in DOMAIN ret.cleaned : ret.cleaned[p] \notin DigitChars

\* the step is a call of set_translation_config
ConfigStep ==
    /\ Len(trace') = Len(trace) + 1
    /\ trace'[Len(trace')].ev = "config"

Settings ==
    [chunk_size |-> args.chunk_size,
     delay_between_chunks |-> delay_between_chunks,
     max_retries |-> max_retries]

(***************************************************************************)
(* C31: set_translation_config changes exactly those of chunk_size,        *)
(* delay_between_chunks and max_retries for which a non-None argument is   *)
(* supplied and leaves the other settings and all other translator state   *)
(* unchanged; after set_translation_config(chunk_size=800, delay=1.0,      *)
(* max_retries=2) the settings are 800, 1.0 and 2, and the next run uses   *)
(* them: it splits at chunk_size, waits delay_between_chunks between       *)
(* chunks and gives up on a chunk after max_retries calls.                 *)
(***************************************************************************)
C31_ConfigSetsWhatIsSupplied ==
    /\ [][ConfigStep =>
            LET call == trace'[Len(trace')].call
            IN  /\ trace'[Len(trace')].before = Settings
                /\ Settings'.chunk_size =
                       (IF "chunk_size" \in DOMAIN call THEN call.chunk_size
                        ELSE Settings.chunk_size)
                /\ Settings'.delay_between_chunks =
                       (IF "delay" \in DOMAIN call THEN call.delay
                        ELSE Settings.delay_between_chunks)
                /\ Settings'.max_retries =
                       (IF "max_retries" \in DOMAIN call THEN call.max_retries
                        ELSE Settings.max_retries)
                /\ call = [chunk_size |-> 800, delay |-> 1, max_retries |-> 2] =>
                       Settings' = [chunk_size |-> 800, delay_between_chunks |-> 1,
                                    max_retries |-> 2]
                /\ [args EXCEPT !.chunk_size = 0]' = [args EXCEPT !.chunk_size = 0]
                /\ <<text_chunks, results, i, attempt, result, pc, op, ret>>'
                       = <<text_chunks, results, i, attempt, result, pc, op, ret>>
         ]_vars
    /\ []((op # "none") =>
             /\ Len(args.text) <= args.chunk_size => text_chunks = <<args.text>>
             /\ Len(args.text) > args.chunk_size =>
                    \A k \in DOMAIN text_chunks : Len(text_chunks[k]) <= args.chunk_size + 2
             /\ \A p \in DOMAIN trace :
                    IsSleep(trace[p], "delay") => trace[p].seconds = delay_between_chunks
             /\ \A k \in DOMAIN text_chunks :
                    /\ CallCount(k) <= (IF max_retries < 0 THEN 0 ELSE max_retries)
                    /\ (Returned(k) /\ AllFailed(k)) =>
                           CallCount(k) = (IF max_retries < 0 THEN 0 ELSE max_retries))

C31_Witness ==
    /\ FileReturned
    /\ Len(trace) > 1
    /\ trace[1].ev = "config"
    /\ trace[1].call = [chunk_size |-> 1, delay |-> 2, max_retries |-> 2]
    /\ trace[1].before = [chunk_size |-> DefaultChunkSize,
                          delay_between_chunks |-> DefaultDelay,
                          max_retries |-> DefaultMaxRetries]
    /\ Settings = [chunk_size |-> 1, delay_between_chunks |-> 2, max_retries |-> 2]
    /\ Len(text_chunks) = 2
    /\ AllFailed(1)
    /\ CallCount(1) = 2
    /\ Len(Delays) = 1
    /\ Delays[1].seconds = 2

(***************************************************************************)
(* C32: when extraction succeeded, an export failure of any or all         *)
(* formats, failure to create the output directory included, is captured   *)
(* only inside export_result: translate_pdf_file still returns status =    *)
(* success with the complete translation_results list and the merged       *)
(* translated_text, and what it returns is a result, not an exception.     *)
(***************************************************************************)
C32_ExportFailureStaysInExportResult ==
    (FileReturned /\ ExtractionSucceeded) =>
        /\ "status" \in DOMAIN ret
        /\ ret.status = "success"
        /\ ret.translation_results = results
        /\ Len(ret.translation_results) = Len(text_chunks)
        /\ ret.translated_text = merge_translation_results(results)
        /\ ret.original_text = args.text
        /\ Len(EventsOf("makedirs")) = 1
        /\ IF EventsOf("makedirs")[1].ok
           THEN \A k \in DOMAIN EventsOf("export") :
                    ret.export_result.formats[EventsOf("export")[k].format].status
                        = EventsOf("export")[k].status
           ELSE ret.export_result.status = "error"

C32_Witness ==
    /\ FileReturned
    /\ ExtractionSucceeded
    /\ Len(EventsOf("makedirs")) = 1
    /\ ~EventsOf("makedirs")[1].ok
    /\ ret.export_result.status = "error"
    /\ ret.status = "success"
    /\ Len(ret.translation_results) = 3
    /\ ret.translation_results[1].status = "success"
    /\ ret.translation_results[3].status = "error"
    /\ ret.translated_text # <<>>

(***************************************************************************)
(* C33: is_scanned_pdf returns False for every PDF in which each of the    *)
(* first min(3, page count) pages yields more than 50 characters of        *)
(* extractable text, so that only documents whose text cannot be extracted *)
(* are rejected with the scanned-PDF warning.                              *)
(***************************************************************************)
C33_TextPdfIsNotScanned ==
    (/\ op = "is_scanned_pdf"
     /\ args.opens
     /\ args.pages # <<>>
     /\ \A k \in DOMAIN args.pages :
            k <= 3 => (args.pages[k].extracted /\ args.pages[k].stripped_len > 50)) =>
        ret.scanned = FALSE

(***************************************************************************)
(* C34: when max_retries is 0 or negative, _translate_chunk_with_retry     *)
(* never calls the client and never waits, and returns at once an          *)
(* exhausted outcome (status = error, placeholder translation) for the     *)
(* chunk; the pipeline still yields one outcome per chunk.                 *)
(***************************************************************************)
C34_NoRetriesMeansNoCall ==
    (max_retries <= 0) =>
        /\ \A p \in DOMAIN trace : ~IsCall(trace[p]) /\ ~IsSleep(trace[p], "backoff")
        /\ \A k \in 1 .. Len(text_chunks) :
               Returned(k) =>
                   /\ OutcomeOf(k).status = "error"
                   /\ OutcomeOf(k).translation =
                          <<"[", "fan", "yi", "shi", "bai", " ", "-", " ", "kuai", " ">>
                              \o Str(k) \o <<"]">>
                   /\ OutcomeOf(k).original = text_chunks[k]
                   /\ OutcomeOf(k).chunk_index = k
        /\ (pc = "done") => Len(results) = Len(text_chunks)

C34_Witness ==
    /\ pc = "done"
    /\ max_retries = 0 - 1
    /\ Len(text_chunks) = 2
    /\ Len(results) = 2
    /\ results[1].status = "error"
    /\ results[2].status = "error"
    /\ TotalCalls = 0

(***************************************************************************)
(* C35: every chunk returned by split_text_for_translation that holds two  *)
(* or more sentences has length at most max_chunk_size + 2: the size test  *)
(* adds the buffer length and the sentence length and leaves out the       *)
(* 2-character ". " joiner of the sentence being appended.                 *)
(***************************************************************************)
C35_JoinedChunkWithinTwo ==
    (op = "split") =>
        \A k \in DOMAIN ret :
            Len(SentencesOf(ret[k])) >= 2 => Len(ret[k]) <= args.max_chunk_size + 2

C35_Witness ==
    /\ op = "split"
    /\ args.text = <<"a", ".", "a", "?", "a">>
    /\ args.max_chunk_size = 2
    /\ Len(ret) = 2
    /\ Len(SentencesOf(ret[1])) = 2
    /\ Len(ret[1]) = args.max_chunk_size + 2

(***************************************************************************)
(* C37: for an empty chunk list, translate_pdf_chunks_with_progress makes  *)
(* no client call, observes no backoff wait and no inter-chunk delay and   *)
(* returns the empty list, and _merge_translation_results of the empty     *)
(* list is the empty string.                                               *)
(***************************************************************************)
C37_EmptyChunkListDoesNothing ==
    (op # "none" /\ ExtractionSucceeded /\ text_chunks = <<>>) =>
        /\ \A p \in DOMAIN trace :
               /\ ~IsCall(trace[p])
               /\ ~IsSleep(trace[p], "backoff")
               /\ ~IsSleep(trace[p], "delay")
        /\ results = <<>>
        /\ FileReturned =>
               /\ ret.translation_results = <<>>
               /\ ret.translated_text = <<>>

C37_Witness ==
    /\ FileReturned
    /\ ExtractionSucceeded
    /\ args.text = <<"?", "!">>
    /\ args.chunk_size = 1
    /\ text_chunks = <<>>
    /\ ret.total_chunks = 0
    /\ ret.translated_text = <<>>

(***************************************************************************)
(* C36: TranslationAgent.translate_pdf_chunks and batch_translate make     *)
(* exactly one client call for each non-blank input text, in input order,  *)
(* and none for an empty or whitespace-only text; in translate_pdf_chunks  *)
(* each result's chunk_index is the 1-based position of its text in the    *)
(* input list and total_chunks is the length of the input list, skipped    *)
(* texts included, so the result list can be shorter than total_chunks.    *)
(***************************************************************************)
\* the positions, in order, of the non-blank texts among the first n
NonBlankPositions(n) ==
    SelectSeq([p \in 1 .. n |-> p], LAMBDA p : ~IsBlank(args.texts[p]))

C36_OneCallPerNonBlankText ==
    (op \in {"batch_translate", "translate_pdf_chunks"}) =>
        LET expected == NonBlankPositions(Len(args.texts))
        IN  /\ Len(trace) = Len(expected)
            /\ Len(ret) = Len(expected)
            /\ \A k \in DOMAIN expected :
                   /\ IsCall(trace[k])
                   /\ trace[k].position = expected[k]
                   /\ trace[k].text = args.texts[expected[k]]
                   /\ ret[k].original = args.texts[expected[k]]
                   /\ (op = "translate_pdf_chunks") =>
                          /\ ret[k].chunk_index = expected[k]
                          /\ ret[k].total_chunks = Len(args.texts)

C36_Witness ==
    /\ op = "translate_pdf_chunks"
    /\ args.texts = <<<<"a", " ", "b">>, <<" ", "\n">>, <<"a", " ", "b">>>>
    /\ Len(ret) = 2
    /\ Len(trace) = 2
    /\ ret[2].chunk_index = 3
    /\ ret[2].total_chunks = 3

(***************************************************************************)
(* C38: PDFProcessor.merge_translated_chunks returns its fixed mismatch    *)
(* message, and no merged content, exactly when the two chunk lists differ *)
(* in length; for lists of equal length N it returns N blocks in list      *)
(* order, block k pairing original chunk k with translated chunk k, the    *)
(* blocks separated by a blank line.                                       *)
(***************************************************************************)
\* the block of the k-th pair, k one-based, as line 175 writes it
ExpectedPairBlock(k) ==
    <<"yuan", "wen", " ", "(", "kuai", " ">> \o Str(k) \o <<")", ":", "\n">>
        \o args.original_chunks[k] \o <<"\n", "\n", "fan", "yi", ":", "\n">>
        \o args.translated_chunks[k]

\* where the k-th block starts in the merged text
PairBlockStart(k) ==
    SumUpTo([j \in 1 .. (k - 1) |-> Len(ExpectedPairBlock(j)) + 2], k - 1) + 1

C38_MergePairsOrMismatch ==
    (op = "merge_translated_chunks") =>
        LET n == Len(args.original_chunks)
            mismatch ==
                <<"fan", "yi", "kuai", "shu", "liang", "bu", "pi", "pei", "zh_comma",
                  "qing", "jian", "cha", "fan", "yi", "jie", "guo">>
        IN  /\ (ret = mismatch) <=> (n # Len(args.translated_chunks))
            /\ (n = Len(args.translated_chunks)) =>
                   /\ Len(ret) = PairBlockStart(n + 1) - (IF n = 0 THEN 1 ELSE 3)
                   /\ \A k \in 1 .. n :
                          /\ SubSeq(ret, PairBlockStart(k),
                                    PairBlockStart(k) + Len(ExpectedPairBlock(k)) - 1)
                                 = ExpectedPairBlock(k)
                          /\ k > 1 =>
                                 SubSeq(ret, PairBlockStart(k) - 2, PairBlockStart(k) - 1)
                                     = <<"\n", "\n">>

C38_Witness ==
    /\ op = "merge_translated_chunks"
    /\ args.original_chunks = <<<<"a">>, <<"b", "\n">>>>
    /\ args.translated_chunks = <<<<"b", "\n">>, <<>>>>
    /\ Len(ret) = 39
    /\ SubSeq(ret, 20, 21) = <<"\n", "\n">>
    /\ ret[28] = "2"

====
